---- MODULE Spec2Model ----
(***************************************************************************)
(* kube-sentry-controller: the Team, Project and ClientKey reconcilers     *)
(* (the teamRef/projectRef variant with hasFinalizer/removeFinalizer),     *)
(* the kubernetes object store they read and write, and the Sentry API     *)
(* they call, the latter with the state and the not-found behaviour of     *)
(* sentry.Fake and the error shapes of httpClient.do.                      *)
(*                                                                         *)
(* One reconcile attempt is a sequence of steps, one per store or Sentry   *)
(* call; pc[k] names the call the attempt for object k makes next and      *)
(* "idle" means that no attempt for k is in flight.  Attempts for one      *)
(* object are serial; in mode "serial" so are attempts for different       *)
(* objects.  Users, the store and other Sentry clients act between calls.  *)
(***************************************************************************)
EXTENDS Integers, Sequences, FiniteSets, TLC

\* ------------------------------------------------------------------ bounds
MaxFaults == 1   \* failing store / Sentry calls and process stops per behaviour
MaxEdits == 1    \* changes made by users and by other Sentry clients
MaxFinalizers == 4   \* entries of a finalizer list handed to removeFinalizer
MaxKeyCalls == 5     \* CreateClientKey and DeleteClientKey calls made on one Fake
MaxFakeCalls == 3    \* calls of any method made on one Fake
MaxAttempts == 2     \* attempts per object of the reconcilers of reconciler.go

\* --------------------------------------------------------------- constants
finalizerName == "sentry.sr.github.com"
otherFinalizer == "example.com/other"
thirdFinalizer == "foregroundDeletion"
managedOrg == "my-sentry-org"

StatusOK == 200
StatusNoContent == 204
StatusCreated == 201
StatusNotFound == 404
StatusServerError == 500
NoResponse == 0      \* a nil *http.Response

\* Strings the code transforms are sequences of characters.
EmptyString == <<>>
NameA == <<"M", "y", " ", "T">>
NameB == <<"O", "p", "s">>
Names == {NameA, NameB}

TeamKeys == {"t1"}
ProjectKeys == {"p1"}
ClientKeyKeys == {"k1"}
Keys == TeamKeys \cup ProjectKeys \cup ClientKeyKeys

NotFound == [absent |-> TRUE]

VARIABLES
  kube,        \* the store: Team, Project and ClientKey objects by key
  secrets,     \* the store: the Secret named like each ClientKey
  Orgs, Teams, Projects, ClientKeys,   \* the Sentry side (sentry.Fake's fields)
  pc,          \* per object: the next call of the attempt in flight, or "idle"
  instance,    \* per object: the attempt's copy of the object
  key,         \* per ClientKey: the attempt's local variable key
  dep,         \* per Project/ClientKey: Status.Slug of the referenced object as read
  found,       \* per ClientKey: the Secret as the attempt read it
  stale,       \* per object: the store changed under the attempt's copy
  staleSecret, \* per ClientKey: the store changed under the attempt's copy of the Secret
  result,      \* per object: how the last finished attempt ended
  log,         \* per object: the calls of the current (or last) attempt
  faults, edits,
  mode,        \* "serial": one attempt at a time; "concurrent": one per object
  created      \* per object: the upstream entities its attempts have created so far

vars == <<kube, secrets, Orgs, Teams, Projects, ClientKeys, pc, instance, key,
          dep, found, stale, staleSecret, result, log, faults, edits, mode, created>>

\* ------------------------------------------------------------ pure helpers
RECURSIVE SeqMap(_, _)
ToLowerChar(c) ==
  CASE c = "M" -> "m" [] c = "T" -> "t" [] c = "O" -> "o" [] OTHER -> c

ReplaceSpaceChar(c) == IF c = " " THEN "-" ELSE c

SlugChar(c) == ReplaceSpaceChar(ToLowerChar(c))

SeqMap(s, i) ==
  IF i > Len(s) THEN <<>> ELSE <<SlugChar(s[i])>> \o SeqMap(s, i + 1)

\* strings.Replace(strings.ToLower(name), " ", "-", -1)
Slugify(name) == SeqMap(name, 1)

Digits == <<"0", "1", "2", "3", "4", "5", "6", "7", "8", "9">>

RECURSIVE Itoa(_)
\* fmt.Sprintf("%d", n) for n >= 0
Itoa(n) == IF n < 10 THEN <<Digits[n + 1]>> ELSE Itoa(n \div 10) \o <<Digits[(n % 10) + 1]>>

Range(s) == {s[i] : i \in 1..Len(s)}

\* -------------------------------------------------------- finalizer helpers
hasFinalizer(obj) == \E i \in 1..Len(obj.Finalizers) : obj.Finalizers[i] = finalizerName

\* A removal that hands the remaining entries back in reverse order.
removeFinalizerReversed(obj) ==
  LET Keep(f) == f # finalizerName
      t == SelectSeq(obj.Finalizers, Keep)
  IN [obj EXCEPT !.Finalizers = [i \in 1..Len(t) |-> t[Len(t) + 1 - i]]]

\* A removal that removes nothing.
removeFinalizerKeeps(obj) == obj

\* A removal that takes out the first occurrence of the marker only.
removeFinalizerFirst(obj) ==
  LET fs == obj.Finalizers
      hits == {i \in 1..Len(fs) : fs[i] = finalizerName}
      first == CHOOSE i \in hits : \A j \in hits : i <= j
  IN IF hits = {} THEN obj
     ELSE [obj EXCEPT !.Finalizers = SubSeq(fs, 1, first - 1) \o SubSeq(fs, first + 1, Len(fs))]

removeFinalizer(obj) ==
  LET Keep(f) == f # finalizerName
  IN [obj EXCEPT !.Finalizers = SelectSeq(obj.Finalizers, Keep)]

\* An append that puts the marker in twice.
addFinalizerTwice(obj) == [obj EXCEPT !.Finalizers = @ \o <<finalizerName, finalizerName>>]

addFinalizer(obj) == [obj EXCEPT !.Finalizers = Append(@, finalizerName)]

\* ------------------------------------------------- the Sentry side (Fake)
Nil == [nil |-> TRUE]

\* for _, t := range s { if t.Slug == slug { ... } }: the index of the first
\* element with that slug, 0 when there is none
IndexBySlug(s, slug) ==
  IF \E i \in 1..Len(s) : s[i].Slug = slug
  THEN CHOOSE i \in 1..Len(s) : s[i].Slug = slug /\ \A j \in 1..(i - 1) : s[j].Slug # slug
  ELSE 0

\* for _, k := range s { if k.ID == id { ... } }
IndexByID(s, id) ==
  IF \E i \in 1..Len(s) : s[i].ID = id
  THEN CHOOSE i \in 1..Len(s) : s[i].ID = id /\ \A j \in 1..(i - 1) : s[j].ID # id
  ELSE 0

\* What a call gives its caller: the HTTP status (NoResponse for a nil response),
\* whether err is non-nil, the decoded value, and the entities afterwards.
Reply(status, err, val, next) == [status |-> status, err |-> err, val |-> val, next |-> next]

\* A GetOrganization that finds every organization.
FakeGetOrganizationAny(orgs, slug) == Reply(StatusOK, FALSE, slug, orgs)

FakeGetOrganization(orgs, slug) ==
  IF \E i \in 1..Len(orgs) : orgs[i] = slug
  THEN Reply(StatusOK, FALSE, slug, orgs)
  ELSE Reply(StatusNotFound, TRUE, Nil, orgs)

FakeGetTeam(teams, slug) ==
  LET i == IndexBySlug(teams, slug)
  IN IF i # 0 THEN Reply(NoResponse, FALSE, teams[i], teams)
     ELSE Reply(StatusNotFound, TRUE, Nil, teams)

FakeCreateTeam(teams, name, slug) ==
  LET s == IF slug = EmptyString THEN Slugify(name) ELSE slug
      t == [Name |-> name, Slug |-> s]
  IN Reply(NoResponse, FALSE, t, Append(teams, t))

FakeUpdateTeamName(teams, slug, name) ==
  LET i == IndexBySlug(teams, slug)
  IN IF i # 0 THEN Reply(StatusOK, FALSE, Nil, [teams EXCEPT ![i].Name = name])
     ELSE Reply(StatusNotFound, TRUE, Nil, teams)

\* An UpdateTeam that stores the team when there is none with that slug.
FakeUpdateTeamUpsert(teams, slug, newName, newSlug) ==
  LET i == IndexBySlug(teams, slug)
      t == [Name |-> newName, Slug |-> slug]
  IN IF i # 0 THEN Reply(StatusOK, FALSE, teams[i], teams)
     ELSE Reply(StatusOK, FALSE, t, Append(teams, t))

\* Fake.UpdateTeam: an empty newName or newSlug keeps the field
FakeUpdateTeam(teams, slug, newName, newSlug) ==
  LET i == IndexBySlug(teams, slug)
      t == [Name |-> IF newName # EmptyString THEN newName ELSE teams[i].Name,
            Slug |-> IF newSlug # EmptyString THEN newSlug ELSE teams[i].Slug]
  IN IF i # 0 THEN Reply(StatusOK, FALSE, t, [teams EXCEPT ![i] = t])
     ELSE Reply(StatusNotFound, TRUE, Nil, teams)

\* A DeleteTeam that answers 204 and deletes nothing.
FakeDeleteTeamKeeps(teams, slug) ==
  IF IndexBySlug(teams, slug) = 0 THEN Reply(StatusNotFound, TRUE, Nil, teams)
  ELSE Reply(StatusNoContent, FALSE, Nil, teams)

FakeDeleteTeam(teams, slug) ==
  LET Keep(t) == t.Slug # slug
  IN IF IndexBySlug(teams, slug) = 0 THEN Reply(StatusNotFound, TRUE, Nil, teams)
     ELSE Reply(StatusNoContent, FALSE, Nil, SelectSeq(teams, Keep))

FakeGetProject(projects, slug) ==
  LET i == IndexBySlug(projects, slug)
  IN IF i # 0 THEN Reply(StatusOK, FALSE, projects[i], projects)
     ELSE Reply(StatusNotFound, TRUE, Nil, projects)

\* A CreateProject that does not look for the team.
FakeCreateProjectAnyTeam(teams, projects, team, name, slug) ==
  LET s == IF slug = EmptyString THEN Slugify(name) ELSE slug
      p == [Name |-> name, Slug |-> s]
  IN Reply(StatusCreated, FALSE, p, Append(projects, p))

FakeCreateProject(teams, projects, team, name, slug) ==
  LET s == IF slug = EmptyString THEN Slugify(name) ELSE slug
      p == [Name |-> name, Slug |-> s]
  IN IF IndexBySlug(teams, team) = 0 THEN Reply(StatusNotFound, TRUE, Nil, projects)
     ELSE Reply(StatusCreated, FALSE, p, Append(projects, p))

FakeUpdateProjectName(projects, slug, name) ==
  LET i == IndexBySlug(projects, slug)
  IN IF i # 0 THEN Reply(StatusOK, FALSE, Nil, [projects EXCEPT ![i].Name = name])
     ELSE Reply(StatusNotFound, TRUE, Nil, projects)

\* Fake.UpdateProject: an empty newName or newSlug keeps the field
FakeUpdateProject(projects, slug, newName, newSlug) ==
  LET i == IndexBySlug(projects, slug)
      p == [Name |-> IF newName # EmptyString THEN newName ELSE projects[i].Name,
            Slug |-> IF newSlug # EmptyString THEN newSlug ELSE projects[i].Slug]
  IN IF i # 0 THEN Reply(StatusOK, FALSE, p, [projects EXCEPT ![i] = p])
     ELSE Reply(StatusNotFound, TRUE, Nil, projects)

FakeDeleteProject(projects, slug) ==
  LET Keep(p) == p.Slug # slug
  IN IF IndexBySlug(projects, slug) = 0 THEN Reply(StatusNotFound, TRUE, Nil, projects)
     ELSE Reply(StatusOK, FALSE, Nil, SelectSeq(projects, Keep))

FakeGetClientKeys(projects, keys, proj) ==
  IF IndexBySlug(projects, proj) = 0 THEN Reply(StatusNotFound, TRUE, Nil, keys)
  ELSE Reply(NoResponse, FALSE, keys, keys)

FakeDSN == [Secret |-> "secret", CSP |-> "csp", Public |-> "public"]

\* A CreateClientKey that does not look for the project.
FakeCreateClientKeyAnyProject(projects, keys, proj, name) ==
  LET k == [ID |-> Itoa(Len(keys) + 1), Name |-> name, DSN |-> FakeDSN]
  IN Reply(StatusOK, FALSE, k, Append(keys, k))

FakeCreateClientKey(projects, keys, proj, name) ==
  LET k == [ID |-> Itoa(Len(keys) + 1), Name |-> name, DSN |-> FakeDSN]
  IN IF IndexBySlug(projects, proj) = 0 THEN Reply(StatusNotFound, TRUE, Nil, keys)
     ELSE Reply(StatusOK, FALSE, k, Append(keys, k))

FakeUpdateClientKeyName(projects, keys, proj, id, name) ==
  LET i == IndexByID(keys, id)
  IN IF IndexBySlug(projects, proj) = 0 THEN Reply(StatusNotFound, TRUE, Nil, keys)
     ELSE IF i # 0 THEN Reply(StatusOK, FALSE, Nil, [keys EXCEPT ![i].Name = name])
     ELSE Reply(StatusNotFound, TRUE, Nil, keys)

\* Fake.UpdateClientKey
FakeUpdateClientKey(projects, keys, proj, id, name) ==
  LET i == IndexByID(keys, id)
  IN IF IndexBySlug(projects, proj) = 0 THEN Reply(StatusNotFound, TRUE, Nil, keys)
     ELSE IF i # 0 THEN Reply(StatusOK, FALSE, Nil, [keys EXCEPT ![i].Name = name])
     ELSE Reply(StatusNotFound, TRUE, Nil, keys)

\* A DeleteClientKey that drops every key once the named one exists.
FakeDeleteClientKeyAll(keys, id) ==
  IF IndexByID(keys, id) = 0 THEN Reply(StatusNotFound, TRUE, Nil, keys)
  ELSE Reply(StatusOK, FALSE, Nil, <<>>)

FakeDeleteClientKey(keys, id) ==
  LET Keep(k) == k.ID # id
  IN IF IndexByID(keys, id) = 0 THEN Reply(StatusNotFound, TRUE, Nil, keys)
     ELSE Reply(StatusOK, FALSE, Nil, SelectSeq(keys, Keep))

\* A do whose error carries the response without its body.
httpDoNoBody(failed, status, body, decode) ==
  IF failed THEN [resp |-> NoResponse, err |-> TRUE, carried |-> Nil]
  ELSE IF status \notin {StatusOK, StatusCreated, StatusNoContent}
  THEN [resp |-> status, err |-> TRUE, carried |-> [Response |-> status, Body |-> EmptyString]]
  ELSE IF decode /\ body # <<"{", "}">> THEN [resp |-> NoResponse, err |-> TRUE, carried |-> Nil]
  ELSE [resp |-> status, err |-> FALSE, carried |-> Nil]

\* httpClient.do(ctx, req, v): failed is c.http.Do returning an error, status
\* and body are those of the response, decode is v != nil. The result is the
\* response returned (its status, NoResponse for nil), whether err is non-nil,
\* and the ErrorResponse the error is (Nil for any other error). Of the bodies
\* drawn, only {} is a JSON value.
httpDo(failed, status, body, decode) ==
  IF failed THEN [resp |-> NoResponse, err |-> TRUE, carried |-> Nil]
  ELSE IF status \notin {StatusOK, StatusCreated, StatusNoContent}
  THEN [resp |-> status, err |-> TRUE, carried |-> [Response |-> status, Body |-> body]]
  ELSE IF decode /\ body # <<"{", "}">> THEN [resp |-> NoResponse, err |-> TRUE, carried |-> Nil]
  ELSE [resp |-> status, err |-> FALSE, carried |-> Nil]

\* httpClient.do: a transport failure gives (nil, err), a status other than
\* 200/201/204 gives (resp, err); neither changed the entities.
do(outcome, reply, unchanged) ==
  CASE outcome = "ok" -> reply
    [] outcome = "http500" -> Reply(StatusServerError, TRUE, Nil, unchanged)
    [] outcome = "noresp" -> Reply(NoResponse, TRUE, Nil, unchanged)

\* ------------------------------------------------------ the object store
\* A store that puts the object written under every key it holds.
StoredUnderAll(store, k, obj) == [j \in DOMAIN store |-> obj]

\* r.kube.Update(ctx, instance) writes the object under the key of instance, k,
\* which is the key of the request
Stored(store, k, obj) == [store EXCEPT ![k] = obj]

\* An Update that overwrites the stored object whatever its version.
kubeUpdateForce(outcome, stored, isStale, obj) ==
  IF outcome # "ok" \/ stored = NotFound
  THEN [err |-> TRUE, next |-> stored]
  ELSE [err |-> FALSE, next |-> obj]

\* An Update that reports success also when it failed and stored nothing.
kubeUpdateSilent(outcome, stored, isStale, obj) ==
  IF outcome # "ok" \/ stored = NotFound \/ isStale
  THEN [err |-> FALSE, next |-> stored]
  ELSE [err |-> FALSE, next |-> obj]

\* client.Update: fails when the call fails, when the object is gone and when
\* the copy is stale (Conflict); otherwise the store holds the copy.
kubeUpdate(outcome, stored, isStale, obj) ==
  IF outcome # "ok" \/ stored = NotFound \/ isStale
  THEN [err |-> TRUE, next |-> stored]
  ELSE [err |-> FALSE, next |-> obj]

\* A Get that hands out the zero object, without error, when the object is absent.
kubeGetZero(outcome, stored) ==
  IF outcome # "ok" THEN [err |-> TRUE, status |-> NoResponse, val |-> NotFound]
  ELSE IF stored = NotFound
  THEN [err |-> FALSE, status |-> NoResponse, val |-> [Status |-> [Slug |-> EmptyString]]]
  ELSE [err |-> FALSE, status |-> NoResponse, val |-> stored]

\* client.Get of a referenced object: fails when the call fails and, with a
\* not-found error, when the object is absent; otherwise gives the stored object.
kubeGet(outcome, stored) ==
  IF outcome # "ok" THEN [err |-> TRUE, status |-> NoResponse, val |-> NotFound]
  ELSE IF stored = NotFound THEN [err |-> TRUE, status |-> StatusNotFound, val |-> NotFound]
  ELSE [err |-> FALSE, status |-> NoResponse, val |-> stored]

\* client.Create: fails when the call fails and when the object exists already.
kubeCreate(outcome, stored, obj) ==
  IF outcome # "ok" \/ stored # NotFound
  THEN [err |-> TRUE, next |-> stored]
  ELSE [err |-> FALSE, next |-> obj]

KubeOutcomes == IF faults < MaxFaults THEN {"ok", "err"} ELSE {"ok"}
SentryOutcomes == IF faults < MaxFaults THEN {"ok", "http500", "noresp"} ELSE {"ok"}
Spend(outcome) == faults' = faults + (IF outcome = "ok" THEN 0 ELSE 1)

\* ---------------------------------------------------- attempt bookkeeping
Ends == {"ok", "err", "panic"}

Entry(op, status, err) == [op |-> op, status |-> status, err |-> err]

\* The attempt for k has made the call `entry` and goes on to `target`: the next
\* call, or the way the attempt ends.
Step(k, target, entry) ==
  /\ pc' = [pc EXCEPT ![k] = IF target \in Ends THEN "idle" ELSE target]
  /\ result' = [result EXCEPT ![k] = IF target \in Ends THEN target ELSE "running"]
  /\ log' = [log EXCEPT ![k] = Append(@, entry)]
  /\ stale' = [stale EXCEPT ![k] = IF target \in Ends THEN FALSE ELSE @]

\* f with k's entry set to val; when attempts are serial the entries of the other
\* objects, which belong to attempts before this one, are forgotten.
Fresh(f, k, val, empty) ==
  IF mode = "serial" THEN [j \in DOMAIN f |-> IF j = k THEN val ELSE empty]
  ELSE [f EXCEPT ![k] = val]

\* An attempt for k may start: none is in flight for k, nor, when attempts are
\* serial, for any other object.
MayStart(k) ==
  /\ pc[k] = "idle"
  /\ mode = "serial" => \A j \in Keys : pc[j] = "idle"

\* The first call of an attempt, kube.Get of the object, which gave inst: the
\* calls and the copies of the attempt before are forgotten.
FirstStep(k, target, entry, inst) ==
  /\ pc' = [pc EXCEPT ![k] = IF target \in Ends THEN "idle" ELSE target]
  /\ result' = Fresh(result, k, IF target \in Ends THEN target ELSE "running", "none")
  /\ log' = Fresh(log, k, <<entry>>, <<>>)
  /\ instance' = Fresh(instance, k, inst, NotFound)
  /\ stale' = [stale EXCEPT ![k] = FALSE]
  /\ key' = IF k \in DOMAIN key THEN Fresh(key, k, Nil, Nil)
            ELSE IF mode = "serial" THEN [j \in DOMAIN key |-> Nil] ELSE key
  /\ dep' = IF k \in DOMAIN dep THEN Fresh(dep, k, EmptyString, EmptyString)
            ELSE IF mode = "serial" THEN [j \in DOMAIN dep |-> EmptyString] ELSE dep
  /\ found' = IF k \in DOMAIN found THEN Fresh(found, k, NotFound, NotFound)
              ELSE IF mode = "serial" THEN [j \in DOMAIN found |-> NotFound] ELSE found
  /\ staleSecret' = [j \in DOMAIN staleSecret |-> IF j = k THEN FALSE ELSE staleSecret[j]]

\* A first call that returns the not-found error of kube.Get to the caller.
kubeGetFirstStrict(k, outcome) ==
  IF outcome # "ok" \/ kube[k] = NotFound
  THEN FirstStep(k, "err", Entry("kube.Get", IF outcome = "ok" THEN StatusNotFound ELSE NoResponse, TRUE),
                 NotFound)
  ELSE FirstStep(k, "GetOrganization", Entry("kube.Get", NoResponse, FALSE), kube[k])

\* kube.Get of the object k as the first call of an attempt
kubeGetFirst(k, outcome) ==
  IF outcome # "ok"
  THEN FirstStep(k, "err", Entry("kube.Get", NoResponse, TRUE), NotFound)
  ELSE IF kube[k] = NotFound
  THEN FirstStep(k, "ok", Entry("kube.Get", StatusNotFound, TRUE), NotFound)
  ELSE FirstStep(k, "GetOrganization", Entry("kube.Get", NoResponse, FALSE), kube[k])

Sentry == <<Orgs, Teams, Projects, ClientKeys>>

\* A deletion branch that goes on whatever status the failed call carried.
deleteOutcomeAnyStatus(resp) ==
  IF resp.err /\ resp.status = NoResponse THEN "panic" ELSE "proceed"

\* A deletion branch that returns every error of the delete call, 404 too.
deleteOutcomeStrict(resp) ==
  IF ~resp.err THEN "proceed"
  ELSE IF resp.status = NoResponse THEN "panic"
  ELSE "err"

\* if err != nil && resp.StatusCode != 404 { return err }: a nil resp with a
\* non-nil err is a nil pointer dereference.
deleteOutcome(resp) ==
  IF ~resp.err THEN "proceed"
  ELSE IF resp.status = NoResponse THEN "panic"
  ELSE IF resp.status # StatusNotFound THEN "err"
  ELSE "proceed"

\* ------------------------------------------------------- reconcilerSet.Team
TeamStatusEmpty == [Slug |-> EmptyString]

\* A Team that creates upstream without adding the finalizer first.
TeamCreatesUnmarked(inst) ==
  IF inst.DeletionTimestamp
  THEN IF ~hasFinalizer(inst) THEN "ok"
       ELSE IF inst.Status.Slug # EmptyString THEN "DeleteTeam"
       ELSE "UpdateDeleted"
  ELSE IF inst.Status.Slug = EmptyString THEN "CreateTeam"
       ELSE "GetTeam"

\* A deletion branch that does not look for the marker.
TeamDeletesUnmarked(inst) ==
  IF inst.DeletionTimestamp
  THEN IF inst.Status.Slug # EmptyString THEN "DeleteTeam"
       ELSE "UpdateDeleted"
  ELSE IF ~hasFinalizer(inst) THEN "AddFinalizer"
       ELSE IF inst.Status.Slug = EmptyString THEN "CreateTeam"
       ELSE "GetTeam"

\* Where Team goes once the organization is resolved.
TeamAfterGetOrganization(inst) ==
  IF inst.DeletionTimestamp
  THEN IF ~hasFinalizer(inst) THEN "ok"
       ELSE IF inst.Status.Slug # EmptyString THEN "DeleteTeam"
       ELSE "UpdateDeleted"
  ELSE IF ~hasFinalizer(inst) THEN "AddFinalizer"
       ELSE IF inst.Status.Slug = EmptyString THEN "CreateTeam"
       ELSE "GetTeam"

TeamAfterAddFinalizer(inst) ==
  IF inst.Status.Slug = EmptyString THEN "CreateTeam" ELSE "GetTeam"

Team_Get(k) ==
  /\ k \in TeamKeys /\ MayStart(k)
  /\ \E out \in KubeOutcomes : Spend(out) /\ kubeGetFirst(k, out)
  /\ UNCHANGED <<kube, secrets, Sentry, edits, mode, created>>

Team_GetOrganization(k) ==
  /\ k \in TeamKeys /\ pc[k] = "GetOrganization"
  /\ \E out \in SentryOutcomes :
       LET r == do(out, FakeGetOrganization(Orgs, managedOrg), Orgs)
       IN /\ Spend(out)
          /\ Step(k, IF r.err THEN "err" ELSE TeamAfterGetOrganization(instance[k]),
                  Entry("GetOrganization", NoResponse, r.err))
  /\ UNCHANGED <<kube, secrets, Sentry, instance, key, dep, found, staleSecret, edits, mode, created>>

Team_DeleteTeam(k) ==
  /\ k \in TeamKeys /\ pc[k] = "DeleteTeam"
  /\ \E out \in SentryOutcomes :
       LET r == do(out, FakeDeleteTeam(Teams, instance[k].Status.Slug), Teams)
           o == deleteOutcome(r)
       IN /\ Spend(out)
          /\ Teams' = r.next
          /\ Step(k, IF o = "proceed" THEN "UpdateDeleted" ELSE o,
                  Entry("DeleteTeam", r.status, r.err))
  /\ UNCHANGED <<kube, secrets, Orgs, Projects, ClientKeys, instance, key, dep, found, staleSecret, edits, mode, created>>

Team_UpdateDeleted(k) ==
  /\ k \in TeamKeys /\ pc[k] = "UpdateDeleted"
  /\ \E out \in KubeOutcomes :
       LET obj == removeFinalizer([instance[k] EXCEPT !.Status = TeamStatusEmpty])
           u == kubeUpdate(out, kube[k], stale[k], obj)
       IN /\ Spend(out)
          /\ instance' = [instance EXCEPT ![k] = obj]
          /\ kube' = Stored(kube, k, u.next)
          /\ Step(k, IF u.err THEN "err" ELSE "ok", Entry("kube.Update", NoResponse, u.err))
  /\ UNCHANGED <<secrets, Sentry, key, dep, found, staleSecret, edits, mode, created>>

Team_AddFinalizer(k) ==
  /\ k \in TeamKeys /\ pc[k] = "AddFinalizer"
  /\ \E out \in KubeOutcomes :
       LET obj == addFinalizer(instance[k])
           u == kubeUpdate(out, kube[k], stale[k], obj)
       IN /\ Spend(out)
          /\ instance' = [instance EXCEPT ![k] = obj]
          /\ kube' = Stored(kube, k, u.next)
          /\ Step(k, IF u.err THEN "err" ELSE TeamAfterAddFinalizer(obj),
                  Entry("kube.Update", NoResponse, u.err))
  /\ UNCHANGED <<secrets, Sentry, key, dep, found, staleSecret, edits, mode, created>>

Team_CreateTeam(k) ==
  /\ k \in TeamKeys /\ pc[k] = "CreateTeam"
  /\ \E out \in SentryOutcomes :
       LET r == do(out, FakeCreateTeam(Teams, instance[k].Spec.Name, EmptyString), Teams)
       IN /\ Spend(out)
          /\ Teams' = r.next
          /\ instance' = IF r.err THEN instance
                         ELSE [instance EXCEPT ![k].Status.Slug = r.val.Slug]
          /\ created' = [created EXCEPT ![k] = @ + (IF r.err THEN 0 ELSE 1)]
          /\ Step(k, IF r.err THEN "err" ELSE "UpdateStatus",
                  Entry("CreateTeam", NoResponse, r.err))
  /\ UNCHANGED <<kube, secrets, Orgs, Projects, ClientKeys, key, dep, found, staleSecret, edits, mode>>

Team_UpdateStatus(k) ==
  /\ k \in TeamKeys /\ pc[k] = "UpdateStatus"
  /\ \E out \in KubeOutcomes :
       LET u == kubeUpdate(out, kube[k], stale[k], instance[k])
       IN /\ Spend(out)
          /\ kube' = Stored(kube, k, u.next)
          /\ Step(k, IF u.err THEN "err" ELSE "ok", Entry("kube.Update", NoResponse, u.err))
  /\ UNCHANGED <<secrets, Sentry, instance, key, dep, found, staleSecret, edits, mode, created>>

Team_GetTeam(k) ==
  /\ k \in TeamKeys /\ pc[k] = "GetTeam"
  /\ \E out \in SentryOutcomes :
       LET r == do(out, FakeGetTeam(Teams, instance[k].Status.Slug), Teams)
       IN /\ Spend(out)
          /\ Step(k, IF r.err THEN "err"
                     ELSE IF r.val.Name = instance[k].Spec.Name THEN "ok"
                     ELSE "UpdateTeamName",
                  Entry("GetTeam", NoResponse, r.err))
  /\ UNCHANGED <<kube, secrets, Sentry, instance, key, dep, found, staleSecret, edits, mode, created>>

\* team.Slug of the team just read is instance.Status.Slug
Team_UpdateTeamName(k) ==
  /\ k \in TeamKeys /\ pc[k] = "UpdateTeamName"
  /\ \E out \in SentryOutcomes :
       LET r == do(out, FakeUpdateTeamName(Teams, instance[k].Status.Slug, instance[k].Spec.Name), Teams)
       IN /\ Spend(out)
          /\ Teams' = r.next
          /\ Step(k, IF r.err THEN "err" ELSE "ok", Entry("UpdateTeamName", NoResponse, r.err))
  /\ UNCHANGED <<kube, secrets, Orgs, Projects, ClientKeys, instance, key, dep, found, staleSecret, edits, mode, created>>

Team(k) ==
  \/ Team_Get(k)
  \/ Team_GetOrganization(k)
  \/ Team_DeleteTeam(k)
  \/ Team_UpdateDeleted(k)
  \/ Team_AddFinalizer(k)
  \/ Team_CreateTeam(k)
  \/ Team_UpdateStatus(k)
  \/ Team_GetTeam(k)
  \/ Team_UpdateTeamName(k)

\* ---------------------------------------------------- reconcilerSet.Project
ProjectStatusEmpty == [Slug |-> EmptyString]

ProjectAfterGetOrganization(inst) ==
  IF inst.DeletionTimestamp
  THEN IF ~hasFinalizer(inst) THEN "ok"
       ELSE IF inst.Status.Slug # EmptyString THEN "DeleteProject"
       ELSE "UpdateDeleted"
  ELSE IF ~hasFinalizer(inst) THEN "AddFinalizer"
       ELSE "GetTeamRef"

\* A reconciler that creates the project again under the team it just read.
ProjectRecreates(inst) == "CreateProject"

ProjectAfterGetTeamRef(inst) ==
  IF inst.Status.Slug = EmptyString THEN "CreateProject" ELSE "GetProject"

Project_Get(k) ==
  /\ k \in ProjectKeys /\ MayStart(k)
  /\ \E out \in KubeOutcomes : Spend(out) /\ kubeGetFirst(k, out)
  /\ UNCHANGED <<kube, secrets, Sentry, edits, mode, created>>

Project_GetOrganization(k) ==
  /\ k \in ProjectKeys /\ pc[k] = "GetOrganization"
  /\ \E out \in SentryOutcomes :
       LET r == do(out, FakeGetOrganization(Orgs, managedOrg), Orgs)
       IN /\ Spend(out)
          /\ Step(k, IF r.err THEN "err" ELSE ProjectAfterGetOrganization(instance[k]),
                  Entry("GetOrganization", NoResponse, r.err))
  /\ UNCHANGED <<kube, secrets, Sentry, instance, key, dep, found, staleSecret, edits, mode, created>>

Project_DeleteProject(k) ==
  /\ k \in ProjectKeys /\ pc[k] = "DeleteProject"
  /\ \E out \in SentryOutcomes :
       LET r == do(out, FakeDeleteProject(Projects, instance[k].Status.Slug), Projects)
           o == deleteOutcome(r)
       IN /\ Spend(out)
          /\ Projects' = r.next
          /\ Step(k, IF o = "proceed" THEN "UpdateDeleted" ELSE o,
                  Entry("DeleteProject", r.status, r.err))
  /\ UNCHANGED <<kube, secrets, Orgs, Teams, ClientKeys, instance, key, dep, found, staleSecret, edits, mode, created>>

Project_UpdateDeleted(k) ==
  /\ k \in ProjectKeys /\ pc[k] = "UpdateDeleted"
  /\ \E out \in KubeOutcomes :
       LET obj == [removeFinalizer(instance[k]) EXCEPT !.Status = ProjectStatusEmpty]
           u == kubeUpdate(out, kube[k], stale[k], obj)
       IN /\ Spend(out)
          /\ instance' = [instance EXCEPT ![k] = obj]
          /\ kube' = Stored(kube, k, u.next)
          /\ Step(k, IF u.err THEN "err" ELSE "ok", Entry("kube.Update", NoResponse, u.err))
  /\ UNCHANGED <<secrets, Sentry, key, dep, found, staleSecret, edits, mode, created>>

Project_AddFinalizer(k) ==
  /\ k \in ProjectKeys /\ pc[k] = "AddFinalizer"
  /\ \E out \in KubeOutcomes :
       LET obj == addFinalizer(instance[k])
           u == kubeUpdate(out, kube[k], stale[k], obj)
       IN /\ Spend(out)
          /\ instance' = [instance EXCEPT ![k] = obj]
          /\ kube' = Stored(kube, k, u.next)
          /\ Step(k, IF u.err THEN "err" ELSE "GetTeamRef",
                  Entry("kube.Update", NoResponse, u.err))
  /\ UNCHANGED <<secrets, Sentry, key, dep, found, staleSecret, edits, mode, created>>

\* kube.Get of the Team named by Spec.TeamRef: any error, not-found too, ends the attempt
Project_GetTeamRef(k) ==
  /\ k \in ProjectKeys /\ pc[k] = "GetTeamRef"
  /\ \E out \in KubeOutcomes :
       LET kubeTeam == kubeGet(out, kube[instance[k].Spec.TeamRef])
       IN /\ Spend(out)
          /\ dep' = IF kubeTeam.err THEN dep ELSE [dep EXCEPT ![k] = kubeTeam.val.Status.Slug]
          /\ Step(k, IF kubeTeam.err THEN "err" ELSE ProjectAfterGetTeamRef(instance[k]),
                  Entry("kube.Get:teamRef", kubeTeam.status, kubeTeam.err))
  /\ UNCHANGED <<kube, secrets, Sentry, instance, key, found, staleSecret, edits, mode, created>>

Project_CreateProject(k) ==
  /\ k \in ProjectKeys /\ pc[k] = "CreateProject"
  /\ \E out \in SentryOutcomes :
       LET r == do(out, FakeCreateProject(Teams, Projects, dep[k], instance[k].Spec.Name, EmptyString),
                   Projects)
       IN /\ Spend(out)
          /\ Projects' = r.next
          /\ instance' = IF r.err THEN instance
                         ELSE [instance EXCEPT ![k].Status.Slug = r.val.Slug]
          /\ created' = [created EXCEPT ![k] = @ + (IF r.err THEN 0 ELSE 1)]
          /\ Step(k, IF r.err THEN "err" ELSE "UpdateStatus",
                  Entry("CreateProject", NoResponse, r.err))
  /\ UNCHANGED <<kube, secrets, Orgs, Teams, ClientKeys, key, dep, found, staleSecret, edits, mode>>

Project_UpdateStatus(k) ==
  /\ k \in ProjectKeys /\ pc[k] = "UpdateStatus"
  /\ \E out \in KubeOutcomes :
       LET u == kubeUpdate(out, kube[k], stale[k], instance[k])
       IN /\ Spend(out)
          /\ kube' = Stored(kube, k, u.next)
          /\ Step(k, IF u.err THEN "err" ELSE "ok", Entry("kube.Update", NoResponse, u.err))
  /\ UNCHANGED <<secrets, Sentry, instance, key, dep, found, staleSecret, edits, mode, created>>

Project_GetProject(k) ==
  /\ k \in ProjectKeys /\ pc[k] = "GetProject"
  /\ \E out \in SentryOutcomes :
       LET r == do(out, FakeGetProject(Projects, instance[k].Status.Slug), Projects)
       IN /\ Spend(out)
          /\ Step(k, IF r.err THEN "err"
                     ELSE IF r.val.Name = instance[k].Spec.Name THEN "ok"
                     ELSE "UpdateProjectName",
                  Entry("GetProject", NoResponse, r.err))
  /\ UNCHANGED <<kube, secrets, Sentry, instance, key, dep, found, staleSecret, edits, mode, created>>

\* proj.Slug of the project just read is instance.Status.Slug
Project_UpdateProjectName(k) ==
  /\ k \in ProjectKeys /\ pc[k] = "UpdateProjectName"
  /\ \E out \in SentryOutcomes :
       LET r == do(out, FakeUpdateProjectName(Projects, instance[k].Status.Slug, instance[k].Spec.Name),
                   Projects)
       IN /\ Spend(out)
          /\ Projects' = r.next
          /\ Step(k, IF r.err THEN "err" ELSE "ok", Entry("UpdateProjectName", NoResponse, r.err))
  /\ UNCHANGED <<kube, secrets, Orgs, Teams, ClientKeys, instance, key, dep, found, staleSecret, edits, mode, created>>

Project(k) ==
  \/ Project_Get(k)
  \/ Project_GetOrganization(k)
  \/ Project_DeleteProject(k)
  \/ Project_UpdateDeleted(k)
  \/ Project_AddFinalizer(k)
  \/ Project_GetTeamRef(k)
  \/ Project_CreateProject(k)
  \/ Project_UpdateStatus(k)
  \/ Project_GetProject(k)
  \/ Project_UpdateProjectName(k)

\* -------------------------------------------------- reconcilerSet.ClientKey
ClientKeyStatusEmpty == [ID |-> EmptyString, Project |-> EmptyString]

NoOwner == "none"

\* Secret data with the public and the secret DSN under each other's name.
secretDataSwapped(k) ==
  ("dsn.secret" :> k.DSN.Public) @@ ("dsn.csp" :> k.DSN.CSP) @@ ("dsn.public" :> k.DSN.Secret)

\* Data of the Secret built from the key
secretData(k) ==
  ("dsn.secret" :> k.DSN.Secret) @@ ("dsn.csp" :> k.DSN.CSP) @@ ("dsn.public" :> k.DSN.Public)

\* secret := &corev1.Secret{...} followed by SetControllerReference(instance, secret)
newSecret(owner, k) == [Data |-> secretData(k), Owner |-> owner]

\* A ClientKey that looks up the referenced Project under deletion too.
ClientKeyLooksUpProjectFirst(inst) ==
  IF ~hasFinalizer(inst) THEN IF inst.DeletionTimestamp THEN "ok" ELSE "AddFinalizer"
  ELSE "GetProjectRef"

ClientKeyAfterGetOrganization(inst) ==
  IF inst.DeletionTimestamp
  THEN IF ~hasFinalizer(inst) THEN "ok"
       ELSE IF inst.Status.ID # EmptyString THEN "DeleteClientKey"
       ELSE "UpdateDeleted"
  ELSE IF ~hasFinalizer(inst) THEN "AddFinalizer"
       ELSE "GetProjectRef"

ClientKeyAfterGetProjectRef(inst) ==
  IF inst.Status.ID = EmptyString THEN "CreateClientKey" ELSE "GetClientKeys"

\* A status write that records the id of the key and not its project.
withKeyIdOnly(inst, k, slug) == [inst EXCEPT !.Status.ID = k.ID]

\* instance.Status.ID = key.ID; instance.Status.Project = kubeProj.Status.Slug
withKeyStatus(inst, k, slug) == [inst EXCEPT !.Status = [ID |-> k.ID, Project |-> slug]]

\* A ClientKey that renames the key whatever its name.
ClientKeyAlwaysRenames(inst, k) == "UpdateClientKeyName"

\* A reconciler that leaves the upstream name of the key as it is.
ClientKeyNeverRenames(inst, k) == "GetSecret"

\* if key.Name != instance.Spec.Name { rename }
ClientKeyAfterKey(inst, k) ==
  IF k.Name # inst.Spec.Name THEN "UpdateClientKeyName" ELSE "GetSecret"

\* for _, k := range keys { if k.ID == instance.Status.ID { key = k; break } }
\* A lookup that takes the first key, whatever its id.
findKeyAny(keys, id) == IF keys = <<>> THEN Nil ELSE keys[1]

findKey(keys, id) ==
  LET i == IndexByID(keys, id)
  IN IF i = 0 THEN Nil ELSE keys[i]

ClientKey_Get(k) ==
  /\ k \in ClientKeyKeys /\ MayStart(k)
  /\ \E out \in KubeOutcomes : Spend(out) /\ kubeGetFirst(k, out)
  /\ UNCHANGED <<kube, secrets, Sentry, edits, mode, created>>

ClientKey_GetOrganization(k) ==
  /\ k \in ClientKeyKeys /\ pc[k] = "GetOrganization"
  /\ \E out \in SentryOutcomes :
       LET r == do(out, FakeGetOrganization(Orgs, managedOrg), Orgs)
       IN /\ Spend(out)
          /\ Step(k, IF r.err THEN "err" ELSE ClientKeyAfterGetOrganization(instance[k]),
                  Entry("GetOrganization", NoResponse, r.err))
  /\ UNCHANGED <<kube, secrets, Sentry, instance, key, dep, found, staleSecret, edits, mode, created>>

ClientKey_DeleteClientKey(k) ==
  /\ k \in ClientKeyKeys /\ pc[k] = "DeleteClientKey"
  /\ \E out \in SentryOutcomes :
       LET r == do(out, FakeDeleteClientKey(ClientKeys, instance[k].Status.ID), ClientKeys)
           o == deleteOutcome(r)
       IN /\ Spend(out)
          /\ ClientKeys' = r.next
          /\ Step(k, IF o = "proceed" THEN "UpdateDeleted" ELSE o,
                  Entry("DeleteClientKey", r.status, r.err))
  /\ UNCHANGED <<kube, secrets, Orgs, Teams, Projects, instance, key, dep, found, staleSecret, edits, mode, created>>

ClientKey_UpdateDeleted(k) ==
  /\ k \in ClientKeyKeys /\ pc[k] = "UpdateDeleted"
  /\ \E out \in KubeOutcomes :
       LET obj == [removeFinalizer(instance[k]) EXCEPT !.Status = ClientKeyStatusEmpty]
           u == kubeUpdate(out, kube[k], stale[k], obj)
       IN /\ Spend(out)
          /\ instance' = [instance EXCEPT ![k] = obj]
          /\ kube' = Stored(kube, k, u.next)
          /\ Step(k, IF u.err THEN "err" ELSE "ok", Entry("kube.Update", NoResponse, u.err))
  /\ UNCHANGED <<secrets, Sentry, key, dep, found, staleSecret, edits, mode, created>>

ClientKey_AddFinalizer(k) ==
  /\ k \in ClientKeyKeys /\ pc[k] = "AddFinalizer"
  /\ \E out \in KubeOutcomes :
       LET obj == addFinalizer(instance[k])
           u == kubeUpdate(out, kube[k], stale[k], obj)
       IN /\ Spend(out)
          /\ instance' = [instance EXCEPT ![k] = obj]
          /\ kube' = Stored(kube, k, u.next)
          /\ Step(k, IF u.err THEN "err" ELSE "GetProjectRef",
                  Entry("kube.Update", NoResponse, u.err))
  /\ UNCHANGED <<secrets, Sentry, key, dep, found, staleSecret, edits, mode, created>>

\* kube.Get of the Project named by Spec.ProjectRef: any error ends the attempt
ClientKey_GetProjectRef(k) ==
  /\ k \in ClientKeyKeys /\ pc[k] = "GetProjectRef"
  /\ \E out \in KubeOutcomes :
       LET kubeProj == kubeGet(out, kube[instance[k].Spec.ProjectRef])
       IN /\ Spend(out)
          /\ dep' = IF kubeProj.err THEN dep ELSE [dep EXCEPT ![k] = kubeProj.val.Status.Slug]
          /\ Step(k, IF kubeProj.err THEN "err" ELSE ClientKeyAfterGetProjectRef(instance[k]),
                  Entry("kube.Get:projectRef", kubeProj.status, kubeProj.err))
  /\ UNCHANGED <<kube, secrets, Sentry, instance, key, found, staleSecret, edits, mode, created>>

ClientKey_CreateClientKey(k) ==
  /\ k \in ClientKeyKeys /\ pc[k] = "CreateClientKey"
  /\ \E out \in SentryOutcomes :
       LET r == do(out, FakeCreateClientKey(Projects, ClientKeys, dep[k], instance[k].Spec.Name),
                   ClientKeys)
       IN /\ Spend(out)
          /\ ClientKeys' = r.next
          /\ key' = IF r.err THEN key ELSE [key EXCEPT ![k] = r.val]
          /\ instance' = IF r.err THEN instance
                         ELSE [instance EXCEPT ![k] = withKeyStatus(@, r.val, dep[k])]
          /\ created' = [created EXCEPT ![k] = @ + (IF r.err THEN 0 ELSE 1)]
          /\ Step(k, IF r.err THEN "err" ELSE "UpdateStatus",
                  Entry("CreateClientKey", NoResponse, r.err))
  /\ UNCHANGED <<kube, secrets, Orgs, Teams, Projects, dep, found, staleSecret, edits, mode>>

ClientKey_UpdateStatus(k) ==
  /\ k \in ClientKeyKeys /\ pc[k] = "UpdateStatus"
  /\ \E out \in KubeOutcomes :
       LET u == kubeUpdate(out, kube[k], stale[k], instance[k])
       IN /\ Spend(out)
          /\ kube' = Stored(kube, k, u.next)
          /\ Step(k, IF u.err THEN "err" ELSE ClientKeyAfterKey(instance[k], key[k]),
                  Entry("kube.Update", NoResponse, u.err))
  /\ UNCHANGED <<secrets, Sentry, instance, key, dep, found, staleSecret, edits, mode, created>>

ClientKey_GetClientKeys(k) ==
  /\ k \in ClientKeyKeys /\ pc[k] = "GetClientKeys"
  /\ \E out \in SentryOutcomes :
       LET r == do(out, FakeGetClientKeys(Projects, ClientKeys, dep[k]), ClientKeys)
           hit == IF r.err THEN Nil ELSE findKey(r.val, instance[k].Status.ID)
       IN /\ Spend(out)
          /\ key' = [key EXCEPT ![k] = hit]
          /\ Step(k, IF r.err \/ hit = Nil THEN "err" ELSE ClientKeyAfterKey(instance[k], hit),
                  Entry("GetClientKeys", NoResponse, r.err))
  /\ UNCHANGED <<kube, secrets, Sentry, instance, dep, found, staleSecret, edits, mode, created>>

ClientKey_UpdateClientKeyName(k) ==
  /\ k \in ClientKeyKeys /\ pc[k] = "UpdateClientKeyName"
  /\ \E out \in SentryOutcomes :
       LET r == do(out, FakeUpdateClientKeyName(Projects, ClientKeys, dep[k],
                                                instance[k].Status.ID, instance[k].Spec.Name),
                   ClientKeys)
       IN /\ Spend(out)
          /\ ClientKeys' = r.next
          /\ Step(k, IF r.err THEN "err" ELSE "GetSecret",
                  Entry("UpdateClientKeyName", NoResponse, r.err))
  /\ UNCHANGED <<kube, secrets, Orgs, Teams, Projects, instance, key, dep, found, staleSecret, edits, mode, created>>

\* kube.Get of the Secret, then reflect.DeepEqual(secret.Data, found.Data)
ClientKey_GetSecret(k) ==
  /\ k \in ClientKeyKeys /\ pc[k] = "GetSecret"
  /\ \E out \in KubeOutcomes :
       /\ Spend(out)
       /\ IF out # "ok"
          THEN Step(k, "err", Entry("kube.Get:secret", NoResponse, TRUE)) /\ UNCHANGED found
          ELSE IF secrets[k] = NotFound
          THEN Step(k, "CreateSecret", Entry("kube.Get:secret", StatusNotFound, TRUE))
               /\ UNCHANGED found
          ELSE /\ found' = [found EXCEPT ![k] = secrets[k]]
               /\ Step(k, IF secretData(key[k]) = secrets[k].Data THEN "ok" ELSE "UpdateSecret",
                       Entry("kube.Get:secret", NoResponse, FALSE))
  /\ staleSecret' = [staleSecret EXCEPT ![k] = FALSE]
  /\ UNCHANGED <<kube, secrets, Sentry, instance, key, dep, edits, mode, created>>

ClientKey_CreateSecret(k) ==
  /\ k \in ClientKeyKeys /\ pc[k] = "CreateSecret"
  /\ \E out \in KubeOutcomes :
       LET c == kubeCreate(out, secrets[k], newSecret(k, key[k]))
       IN /\ Spend(out)
          /\ secrets' = [secrets EXCEPT ![k] = c.next]
          /\ Step(k, IF c.err THEN "err" ELSE "ok", Entry("kube.Create:secret", NoResponse, c.err))
  /\ UNCHANGED <<kube, Sentry, instance, key, dep, found, staleSecret, edits, mode, created>>

\* found.Data = secret.Data; kube.Update(found)
ClientKey_UpdateSecret(k) ==
  /\ k \in ClientKeyKeys /\ pc[k] = "UpdateSecret"
  /\ \E out \in KubeOutcomes :
       LET obj == [found[k] EXCEPT !.Data = secretData(key[k])]
           u == kubeUpdate(out, secrets[k], staleSecret[k], obj)
       IN /\ Spend(out)
          /\ secrets' = [secrets EXCEPT ![k] = u.next]
          /\ Step(k, IF u.err THEN "err" ELSE "ok", Entry("kube.Update:secret", NoResponse, u.err))
  /\ UNCHANGED <<kube, Sentry, instance, key, dep, found, staleSecret, edits, mode, created>>

ClientKey(k) ==
  \/ ClientKey_Get(k)
  \/ ClientKey_GetOrganization(k)
  \/ ClientKey_DeleteClientKey(k)
  \/ ClientKey_UpdateDeleted(k)
  \/ ClientKey_AddFinalizer(k)
  \/ ClientKey_GetProjectRef(k)
  \/ ClientKey_CreateClientKey(k)
  \/ ClientKey_UpdateStatus(k)
  \/ ClientKey_GetClientKeys(k)
  \/ ClientKey_UpdateClientKeyName(k)
  \/ ClientKey_GetSecret(k)
  \/ ClientKey_CreateSecret(k)
  \/ ClientKey_UpdateSecret(k)

\* ------------------------------------------- users, the store, other clients
Edit == edits < MaxEdits /\ edits' = edits + 1

MarkStale(k) == stale' = [stale EXCEPT ![k] = (pc[k] # "idle")]

\* A delete request: an object with finalizers gets its deletion timestamp,
\* one without is removed at once.
MarkDeleted(k) ==
  /\ kube[k] # NotFound /\ ~kube[k].DeletionTimestamp
  /\ Edit
  /\ kube' = [kube EXCEPT ![k] = IF kube[k].Finalizers = <<>> THEN NotFound
                                 ELSE [@ EXCEPT !.DeletionTimestamp = TRUE]]
  /\ MarkStale(k)
  /\ UNCHANGED <<secrets, Sentry, pc, instance, key, dep, found, staleSecret, result, log, faults, mode, created>>

\* A user changes spec.name.
EditSpecName(k) ==
  /\ kube[k] # NotFound /\ ~kube[k].DeletionTimestamp
  /\ Edit
  /\ \E n \in Names \ {kube[k].Spec.Name} : kube' = [kube EXCEPT ![k].Spec.Name = n]
  /\ MarkStale(k)
  /\ UNCHANGED <<secrets, Sentry, pc, instance, key, dep, found, staleSecret, result, log, faults, mode, created>>

\* The store removes an object under deletion once its last finalizer is gone.
StoreGC(k) ==
  /\ kube[k] # NotFound /\ kube[k].DeletionTimestamp /\ kube[k].Finalizers = <<>>
  /\ kube' = [kube EXCEPT ![k] = NotFound]
  /\ MarkStale(k)
  /\ UNCHANGED <<secrets, Sentry, pc, instance, key, dep, found, staleSecret, result, log, faults, edits, mode, created>>

\* The store removes a Secret whose owner is gone.
SecretGC(k) ==
  /\ k \in ClientKeyKeys
  /\ secrets[k] # NotFound /\ secrets[k].Owner = k /\ kube[k] = NotFound
  /\ secrets' = [secrets EXCEPT ![k] = NotFound]
  /\ staleSecret' = [staleSecret EXCEPT ![k] = (pc[k] = "UpdateSecret")]
  /\ UNCHANGED <<kube, Sentry, pc, instance, key, dep, found, stale, result, log, faults, edits, mode, created>>

StaleDSN == [Secret |-> "old secret", CSP |-> "old csp", Public |-> "old public"]

\* Somebody deletes the Secret, or writes other data to it.
SecretTamper(k) ==
  /\ k \in ClientKeyKeys
  /\ secrets[k] # NotFound
  /\ Edit
  /\ \/ secrets' = [secrets EXCEPT ![k] = NotFound]
     \/ /\ secrets[k].Data # secretData([DSN |-> StaleDSN])
        /\ secrets' = [secrets EXCEPT ![k].Data = secretData([DSN |-> StaleDSN])]
  /\ staleSecret' = [staleSecret EXCEPT ![k] = (pc[k] = "UpdateSecret")]
  /\ UNCHANGED <<kube, Sentry, pc, instance, key, dep, found, stale, result, log, faults, mode, created>>

RemoveAt(s, i) == SubSeq(s, 1, i - 1) \o SubSeq(s, i + 1, Len(s))

\* Another client of the Sentry API deletes an entity.
SentryRemoveTeam ==
  /\ Edit
  /\ \E i \in 1..Len(Teams) : Teams' = RemoveAt(Teams, i)
  /\ UNCHANGED <<kube, secrets, Orgs, Projects, ClientKeys, pc, instance, key, dep, found,
                 stale, staleSecret, result, log, faults, mode, created>>

SentryRemoveProject ==
  /\ Edit
  /\ \E i \in 1..Len(Projects) : Projects' = RemoveAt(Projects, i)
  /\ UNCHANGED <<kube, secrets, Orgs, Teams, ClientKeys, pc, instance, key, dep, found,
                 stale, staleSecret, result, log, faults, mode, created>>

SentryRemoveClientKey ==
  /\ Edit
  /\ \E i \in 1..Len(ClientKeys) : ClientKeys' = RemoveAt(ClientKeys, i)
  /\ UNCHANGED <<kube, secrets, Orgs, Teams, Projects, pc, instance, key, dep, found,
                 stale, staleSecret, result, log, faults, mode, created>>

\* The process stops between two calls of an attempt.
Stop(k) ==
  /\ pc[k] # "idle"
  /\ faults < MaxFaults /\ faults' = faults + 1
  /\ pc' = [pc EXCEPT ![k] = "idle"]
  /\ result' = [result EXCEPT ![k] = "stopped"]
  /\ stale' = [stale EXCEPT ![k] = FALSE]
  /\ UNCHANGED <<kube, secrets, Sentry, instance, key, dep, found, staleSecret, log, edits, mode, created>>

\* ------------------------------------------------------------ initial states
NewDSN == [Secret |-> "new secret", CSP |-> "new csp", Public |-> "new public"]

\* Objects as declared, nothing upstream but (perhaps) the organization.
Declared(orgs) ==
  /\ kube = [k \in Keys |->
       IF k \in TeamKeys
       THEN [DeletionTimestamp |-> FALSE, Finalizers |-> <<>>,
             Spec |-> [Name |-> NameA], Status |-> TeamStatusEmpty]
       ELSE IF k \in ProjectKeys
       THEN [DeletionTimestamp |-> FALSE, Finalizers |-> <<>>,
             Spec |-> [Name |-> NameA, TeamRef |-> "t1"], Status |-> ProjectStatusEmpty]
       ELSE [DeletionTimestamp |-> FALSE, Finalizers |-> <<>>,
             Spec |-> [Name |-> NameA, ProjectRef |-> "p1"], Status |-> ClientKeyStatusEmpty]]
  /\ secrets = [k \in ClientKeyKeys |-> NotFound]
  /\ Orgs = orgs
  /\ Teams = <<>> /\ Projects = <<>> /\ ClientKeys = <<>>

\* A Secret somebody wrote by hand: other values, one more entry, no owner.
handSecret == [Data |-> secretData([DSN |-> StaleDSN]) @@ ("note" :> "by hand"), Owner |-> NoOwner]

\* Objects that record entities created upstream earlier, beside a finalizer of
\* another controller and a Secret written by hand.  The entities still exist,
\* under another name than spec.name, unless `gone`; the objects are under
\* deletion if `deleting`.
Recorded(deleting, gone) ==
  /\ kube = [k \in Keys |->
       IF k \in TeamKeys
       THEN [DeletionTimestamp |-> deleting, Finalizers |-> <<otherFinalizer, finalizerName>>,
             Spec |-> [Name |-> NameA], Status |-> [Slug |-> Slugify(NameA)]]
       ELSE IF k \in ProjectKeys
       THEN [DeletionTimestamp |-> deleting, Finalizers |-> <<otherFinalizer, finalizerName>>,
             Spec |-> [Name |-> NameA, TeamRef |-> "t1"], Status |-> [Slug |-> Slugify(NameA)]]
       ELSE [DeletionTimestamp |-> deleting, Finalizers |-> <<otherFinalizer, finalizerName>>,
             Spec |-> [Name |-> NameA, ProjectRef |-> "p1"],
             Status |-> [ID |-> Itoa(1), Project |-> Slugify(NameA)]]]
  /\ secrets = [k \in ClientKeyKeys |-> handSecret]
  /\ Orgs = <<managedOrg>>
  /\ Teams = IF gone THEN <<>> ELSE <<[Name |-> NameB, Slug |-> Slugify(NameA)]>>
  /\ Projects = IF gone THEN <<>> ELSE <<[Name |-> NameB, Slug |-> Slugify(NameA)]>>
  /\ ClientKeys = IF gone THEN <<[ID |-> Itoa(2), Name |-> NameB, DSN |-> FakeDSN]>>
                  ELSE <<[ID |-> Itoa(1), Name |-> NameB, DSN |-> NewDSN],
                         [ID |-> Itoa(2), Name |-> NameB, DSN |-> FakeDSN]>>

Init ==
  /\ \/ Declared(<<managedOrg>>)
     \/ Declared(<<>>)
     \/ \E deleting \in BOOLEAN, gone \in BOOLEAN : Recorded(deleting, gone)
  /\ pc = [k \in Keys |-> "idle"]
  /\ instance = [k \in Keys |-> NotFound]
  /\ key = [k \in ClientKeyKeys |-> Nil]
  /\ dep = [k \in ProjectKeys \cup ClientKeyKeys |-> EmptyString]
  /\ found = [k \in ClientKeyKeys |-> NotFound]
  /\ stale = [k \in Keys |-> FALSE]
  /\ staleSecret = [k \in ClientKeyKeys |-> FALSE]
  /\ result = [k \in Keys |-> "none"]
  /\ log = [k \in Keys |-> <<>>]
  /\ faults = 0 /\ edits = 0
  /\ mode = "serial"
  /\ created = [k \in Keys |-> 0]

Next ==
  \/ \E k \in TeamKeys : Team(k)
  \/ \E k \in ProjectKeys : Project(k)
  \/ \E k \in ClientKeyKeys : ClientKey(k)
  \/ \E k \in Keys : MarkDeleted(k)
  \/ \E k \in Keys : EditSpecName(k)
  \/ \E k \in Keys : StoreGC(k)
  \/ \E k \in ClientKeyKeys : SecretGC(k)
  \/ \E k \in ClientKeyKeys : SecretTamper(k)
  \/ SentryRemoveTeam
  \/ SentryRemoveProject
  \/ SentryRemoveClientKey
  \/ \E k \in Keys : Stop(k)

Spec == Init /\ [][Next]_vars

\* --------------------------------------- the controllers and their queues
\* A controller without the watch on Secrets.
SecretEventNever(k) == FALSE

\* The Secret of ClientKey k, which the last attempt left with the values of
\* key[k], is gone or, owned by k, holds other values: the watch on Secrets
\* (EnqueueRequestForOwner, IsController) has put k on the queue.
SecretEvent(k) ==
  /\ k \in ClientKeyKeys /\ key[k] # Nil
  /\ IF secrets[k] = NotFound THEN TRUE
     ELSE secrets[k].Owner = k /\ secrets[k].Data # secretData(key[k])

\* k is on the queue of its controller: it was never reconciled or its last
\* attempt did not return success (the request is queued again), or the stored
\* object is not the one the attempt last held (EnqueueRequestForObject), or
\* its Secret has changed.
Queued(k) ==
  IF result[k] # "ok" \/ kube[k] # instance[k] THEN TRUE ELSE SecretEvent(k)

\* One call of the attempt for k; an attempt starts only for a queued k.
Reconcile(k) ==
  /\ pc[k] = "idle" => Queued(k)
  /\ \/ Team(k)
     \/ Project(k)
     \/ ClientKey(k)

\* Somebody deletes a Secret that its ClientKey owns, or writes other data to it.
OwnedSecretTamper(k) ==
  /\ k \in ClientKeyKeys
  /\ secrets[k] # NotFound /\ secrets[k].Owner = k
  /\ SecretTamper(k)

\* The three controllers run side by side, one worker each.
InitFair ==
  /\ \/ Declared(<<managedOrg>>)
     \/ \E deleting \in BOOLEAN, gone \in BOOLEAN : Recorded(deleting, gone)
  /\ pc = [k \in Keys |-> "idle"]
  /\ instance = [k \in Keys |-> NotFound]
  /\ key = [k \in ClientKeyKeys |-> Nil]
  /\ dep = [k \in ProjectKeys \cup ClientKeyKeys |-> EmptyString]
  /\ found = [k \in ClientKeyKeys |-> NotFound]
  /\ stale = [k \in Keys |-> FALSE]
  /\ staleSecret = [k \in ClientKeyKeys |-> FALSE]
  /\ result = [k \in Keys |-> "none"]
  /\ log = [k \in Keys |-> <<>>]
  /\ faults = 0 /\ edits = 0
  /\ mode = "concurrent"
  /\ created = [k \in Keys |-> 0]

NextFair ==
  \/ \E k \in Keys : Reconcile(k)
  \/ \E k \in ClientKeyKeys : OwnedSecretTamper(k)

\* Every queued request is worked on, and every attempt goes on to its next
\* call: weak fairness per object.
FairSpec ==
  /\ InitFair /\ [][NextFair]_vars
  /\ \A k \in Keys : WF_vars(Reconcile(k))

\* ----------------------------------- objects under deletion without marker
\* Objects under deletion that another controller's finalizer keeps in the
\* store and that do not carry the marker; their status is empty or, if
\* `recorded`, names entities that exist upstream.
Unmarked(recorded) ==
  /\ kube = [k \in Keys |->
       IF k \in TeamKeys
       THEN [DeletionTimestamp |-> TRUE, Finalizers |-> <<otherFinalizer>>,
             Spec |-> [Name |-> NameA],
             Status |-> IF recorded THEN [Slug |-> Slugify(NameA)] ELSE TeamStatusEmpty]
       ELSE IF k \in ProjectKeys
       THEN [DeletionTimestamp |-> TRUE, Finalizers |-> <<otherFinalizer>>,
             Spec |-> [Name |-> NameA, TeamRef |-> "t1"],
             Status |-> IF recorded THEN [Slug |-> Slugify(NameA)] ELSE ProjectStatusEmpty]
       ELSE [DeletionTimestamp |-> TRUE, Finalizers |-> <<otherFinalizer>>,
             Spec |-> [Name |-> NameA, ProjectRef |-> "p1"],
             Status |-> IF recorded THEN [ID |-> Itoa(1), Project |-> Slugify(NameA)]
                        ELSE ClientKeyStatusEmpty]]
  /\ secrets = [k \in ClientKeyKeys |-> handSecret]
  /\ Orgs = <<managedOrg>>
  /\ Teams = <<[Name |-> NameA, Slug |-> Slugify(NameA)]>>
  /\ Projects = <<[Name |-> NameA, Slug |-> Slugify(NameA)]>>
  /\ ClientKeys = <<[ID |-> Itoa(1), Name |-> NameA, DSN |-> NewDSN]>>

\* The initial states of Init and, beside them, those with unmarked objects
\* under deletion.
InitUnmarked ==
  \/ Init
  \/ /\ \E recorded \in BOOLEAN : Unmarked(recorded)
     /\ pc = [k \in Keys |-> "idle"]
     /\ instance = [k \in Keys |-> NotFound]
     /\ key = [k \in ClientKeyKeys |-> Nil]
     /\ dep = [k \in ProjectKeys \cup ClientKeyKeys |-> EmptyString]
     /\ found = [k \in ClientKeyKeys |-> NotFound]
     /\ stale = [k \in Keys |-> FALSE]
     /\ staleSecret = [k \in ClientKeyKeys |-> FALSE]
     /\ result = [k \in Keys |-> "none"]
     /\ log = [k \in Keys |-> <<>>]
     /\ faults = 0 /\ edits = 0
     /\ mode = "serial"
     /\ created = [k \in Keys |-> 0]

SpecUnmarked == InitUnmarked /\ [][Next]_vars

\* ------------------------------------------- removeFinalizer on any list
\* The finalizer lists of up to MaxFinalizers entries.
FinalizerLists ==
  UNION {[1..n -> {finalizerName, otherFinalizer, thirdFinalizer}] : n \in 0..MaxFinalizers}

\* A Team object under deletion with the finalizers fs.
Listed(fs) ==
  [DeletionTimestamp |-> TRUE, Finalizers |-> fs,
   Spec |-> [Name |-> NameA], Status |-> TeamStatusEmpty]

\* The store holds a Team with any finalizer list, and instance is the copy of
\* it that removeFinalizer is going to be applied to.
InitRemoveFinalizer ==
  /\ \E fs \in FinalizerLists :
       /\ kube = [k \in Keys |-> IF k \in TeamKeys THEN Listed(fs) ELSE NotFound]
       /\ instance = [k \in Keys |-> IF k \in TeamKeys THEN Listed(fs) ELSE NotFound]
  /\ secrets = [k \in ClientKeyKeys |-> NotFound]
  /\ Orgs = <<managedOrg>> /\ Teams = <<>> /\ Projects = <<>> /\ ClientKeys = <<>>
  /\ pc = [k \in Keys |-> "idle"]
  /\ key = [k \in ClientKeyKeys |-> Nil]
  /\ dep = [k \in ProjectKeys \cup ClientKeyKeys |-> EmptyString]
  /\ found = [k \in ClientKeyKeys |-> NotFound]
  /\ stale = [k \in Keys |-> FALSE]
  /\ staleSecret = [k \in ClientKeyKeys |-> FALSE]
  /\ result = [k \in Keys |-> "none"]
  /\ log = [k \in Keys |-> <<>>]
  /\ faults = 0 /\ edits = 0
  /\ mode = "serial"
  /\ created = [k \in Keys |-> 0]

\* removeFinalizer(instance)
RemoveFinalizerCall(k) ==
  /\ k \in TeamKeys /\ pc[k] = "idle"
  /\ instance' = [instance EXCEPT ![k] = removeFinalizer(instance[k])]
  /\ pc' = [pc EXCEPT ![k] = "removed"]
  /\ UNCHANGED <<kube, secrets, Sentry, key, dep, found, stale, staleSecret, result, log,
                 faults, edits, mode, created>>

\* removeFinalizer(instance), on the object it was already applied to
RemoveFinalizerAgain(k) ==
  /\ k \in TeamKeys /\ pc[k] = "removed"
  /\ instance' = [instance EXCEPT ![k] = removeFinalizer(instance[k])]
  /\ pc' = [pc EXCEPT ![k] = "removed again"]
  /\ UNCHANGED <<kube, secrets, Sentry, key, dep, found, stale, staleSecret, result, log,
                 faults, edits, mode, created>>

NextRemoveFinalizer ==
  \/ \E k \in TeamKeys : RemoveFinalizerCall(k)
  \/ \E k \in TeamKeys : RemoveFinalizerAgain(k)

SpecRemoveFinalizer == InitRemoveFinalizer /\ [][NextRemoveFinalizer]_vars

\* ------------------------------------- the Fake's client keys, called directly
\* A Fake holding one project and no key, as a test builds it.
InitFakeKeys ==
  /\ kube = [k \in Keys |-> NotFound]
  /\ instance = [k \in Keys |-> NotFound]
  /\ secrets = [k \in ClientKeyKeys |-> NotFound]
  /\ Orgs = <<managedOrg>> /\ Teams = <<>> /\ ClientKeys = <<>>
  /\ Projects = <<[Name |-> NameA, Slug |-> Slugify(NameA)]>>
  /\ pc = [k \in Keys |-> "idle"]
  /\ key = [k \in ClientKeyKeys |-> Nil]
  /\ dep = [k \in ProjectKeys \cup ClientKeyKeys |-> EmptyString]
  /\ found = [k \in ClientKeyKeys |-> NotFound]
  /\ stale = [k \in Keys |-> FALSE]
  /\ staleSecret = [k \in ClientKeyKeys |-> FALSE]
  /\ result = [k \in Keys |-> "none"]
  /\ log = [k \in Keys |-> <<>>]
  /\ faults = 0 /\ edits = 0
  /\ mode = "serial"
  /\ created = [k \in Keys |-> 0]

\* the ids a caller can name: those the Fake can have returned
KeyIds == {Itoa(n) : n \in 1..MaxKeyCalls}

\* Fake.CreateClientKey(ctx, org, proj, name)
CreateClientKeyCall(k) ==
  /\ k \in ClientKeyKeys /\ Len(log[k]) < MaxKeyCalls
  /\ \E proj \in {Slugify(NameA), Slugify(NameB)}, name \in {NameA, NameB} :
       LET r == FakeCreateClientKey(Projects, ClientKeys, proj, name)
       IN /\ ClientKeys' = r.next
          /\ key' = [key EXCEPT ![k] = r.val]
          /\ log' = [log EXCEPT ![k] = Append(@, Entry("CreateClientKey", r.status, r.err))]
          /\ created' = [created EXCEPT ![k] = IF r.err THEN @ ELSE @ + 1]
  /\ UNCHANGED <<kube, secrets, Orgs, Teams, Projects, pc, instance, dep, found, stale,
                 staleSecret, result, faults, edits, mode>>

\* Fake.DeleteClientKey(ctx, org, proj, id)
DeleteClientKeyCall(k) ==
  /\ k \in ClientKeyKeys /\ Len(log[k]) < MaxKeyCalls
  /\ \E id \in KeyIds :
       LET r == FakeDeleteClientKey(ClientKeys, id)
       IN /\ ClientKeys' = r.next
          /\ log' = [log EXCEPT ![k] = Append(@, Entry("DeleteClientKey", r.status, r.err))]
  /\ UNCHANGED <<kube, secrets, Orgs, Teams, Projects, pc, instance, key, dep, found, stale,
                 staleSecret, result, faults, edits, mode, created>>

NextFakeKeys ==
  \/ \E k \in ClientKeyKeys : CreateClientKeyCall(k)
  \/ \E k \in ClientKeyKeys : DeleteClientKeyCall(k)

SpecFakeKeys == InitFakeKeys /\ [][NextFakeKeys]_vars

\* --------------------------------------- every method of the Fake, called directly
\* A Fake holding one team, one project and one key, as a test builds it.
InitFake ==
  /\ kube = [k \in Keys |-> NotFound]
  /\ instance = [k \in Keys |-> NotFound]
  /\ secrets = [k \in ClientKeyKeys |-> NotFound]
  /\ Orgs = <<managedOrg>>
  /\ Teams = <<[Name |-> NameA, Slug |-> Slugify(NameA)]>>
  /\ Projects = <<[Name |-> NameA, Slug |-> Slugify(NameA)]>>
  /\ ClientKeys = <<[ID |-> Itoa(1), Name |-> NameA, DSN |-> FakeDSN]>>
  /\ pc = [k \in Keys |-> "idle"]
  /\ key = [k \in ClientKeyKeys |-> Nil]
  /\ dep = [k \in ProjectKeys \cup ClientKeyKeys |-> EmptyString]
  /\ found = [k \in ClientKeyKeys |-> NotFound]
  /\ stale = [k \in Keys |-> FALSE]
  /\ staleSecret = [k \in ClientKeyKeys |-> FALSE]
  /\ result = [k \in Keys |-> "none"]
  /\ log = [k \in Keys |-> <<>>]
  /\ faults = 0 /\ edits = 0
  /\ mode = "serial"
  /\ created = [k \in Keys |-> 0]

\* a call made on the Fake with its arguments, and what it returned
Call(op, slug, id, r) == [op |-> op, slug |-> slug, id |-> id, status |-> r.status, err |-> r.err]

\* log holds the last call only, under the key of the kind it was about
Called(k, call) ==
  /\ edits < MaxFakeCalls
  /\ edits' = edits + 1
  /\ log' = [j \in Keys |-> IF j = k THEN <<call>> ELSE <<>>]
  /\ UNCHANGED <<kube, secrets, pc, instance, key, dep, found, stale, staleSecret, result,
                 faults, mode, created>>

GetTeamCall(k) ==
  /\ k \in TeamKeys
  /\ \E slug \in {Slugify(NameA), Slugify(NameB)} :
       LET r == FakeGetTeam(Teams, slug)
       IN Teams' = r.next /\ Called(k, Call("GetTeam", slug, EmptyString, r))
  /\ UNCHANGED <<Orgs, Projects, ClientKeys>>

CreateTeamCall(k) ==
  /\ k \in TeamKeys
  /\ \E name \in {NameA, NameB}, slug \in {EmptyString} \cup {Slugify(NameA), Slugify(NameB)} :
       LET r == FakeCreateTeam(Teams, name, slug)
       IN Teams' = r.next /\ Called(k, Call("CreateTeam", r.val.Slug, EmptyString, r))
  /\ UNCHANGED <<Orgs, Projects, ClientKeys>>

UpdateTeamCall(k) ==
  /\ k \in TeamKeys
  /\ \E slug \in {Slugify(NameA), Slugify(NameB)}, newName \in {EmptyString, NameB}, newSlug \in {EmptyString, Slugify(NameB)} :
       LET r == FakeUpdateTeam(Teams, slug, newName, newSlug)
       IN Teams' = r.next /\ Called(k, Call("UpdateTeam", slug, EmptyString, r))
  /\ UNCHANGED <<Orgs, Projects, ClientKeys>>

DeleteTeamCall(k) ==
  /\ k \in TeamKeys
  /\ \E slug \in {Slugify(NameA), Slugify(NameB)} :
       LET r == FakeDeleteTeam(Teams, slug)
       IN Teams' = r.next /\ Called(k, Call("DeleteTeam", slug, EmptyString, r))
  /\ UNCHANGED <<Orgs, Projects, ClientKeys>>

GetProjectCall(k) ==
  /\ k \in ProjectKeys
  /\ \E slug \in {Slugify(NameA), Slugify(NameB)} :
       LET r == FakeGetProject(Projects, slug)
       IN Projects' = r.next /\ Called(k, Call("GetProject", slug, EmptyString, r))
  /\ UNCHANGED <<Orgs, Teams, ClientKeys>>

CreateProjectCall(k) ==
  /\ k \in ProjectKeys
  /\ \E team \in {Slugify(NameA), Slugify(NameB)}, name \in {NameA, NameB} :
       LET r == FakeCreateProject(Teams, Projects, team, name, EmptyString)
       IN Projects' = r.next /\ Called(k, Call("CreateProject", Slugify(name), EmptyString, r))
  /\ UNCHANGED <<Orgs, Teams, ClientKeys>>

UpdateProjectCall(k) ==
  /\ k \in ProjectKeys
  /\ \E slug \in {Slugify(NameA), Slugify(NameB)}, newName \in {EmptyString, NameB}, newSlug \in {EmptyString, Slugify(NameB)} :
       LET r == FakeUpdateProject(Projects, slug, newName, newSlug)
       IN Projects' = r.next /\ Called(k, Call("UpdateProject", slug, EmptyString, r))
  /\ UNCHANGED <<Orgs, Teams, ClientKeys>>

DeleteProjectCall(k) ==
  /\ k \in ProjectKeys
  /\ \E slug \in {Slugify(NameA), Slugify(NameB)} :
       LET r == FakeDeleteProject(Projects, slug)
       IN Projects' = r.next /\ Called(k, Call("DeleteProject", slug, EmptyString, r))
  /\ UNCHANGED <<Orgs, Teams, ClientKeys>>

GetClientKeysCall(k) ==
  /\ k \in ClientKeyKeys
  /\ \E proj \in {Slugify(NameA), Slugify(NameB)} :
       LET r == FakeGetClientKeys(Projects, ClientKeys, proj)
       IN ClientKeys' = r.next /\ Called(k, Call("GetClientKeys", proj, EmptyString, r))
  /\ UNCHANGED <<Orgs, Teams, Projects>>

NewClientKeyCall(k) ==
  /\ k \in ClientKeyKeys
  /\ \E proj \in {Slugify(NameA), Slugify(NameB)}, name \in {NameA, NameB} :
       LET r == FakeCreateClientKey(Projects, ClientKeys, proj, name)
       IN ClientKeys' = r.next /\ Called(k, Call("CreateClientKey", proj, EmptyString, r))
  /\ UNCHANGED <<Orgs, Teams, Projects>>

UpdateClientKeyCall(k) ==
  /\ k \in ClientKeyKeys
  /\ \E proj \in {Slugify(NameA), Slugify(NameB)}, id \in {Itoa(1), Itoa(2)}, name \in {NameA, NameB} :
       LET r == FakeUpdateClientKey(Projects, ClientKeys, proj, id, name)
       IN ClientKeys' = r.next /\ Called(k, Call("UpdateClientKey", proj, id, r))
  /\ UNCHANGED <<Orgs, Teams, Projects>>

RemoveClientKeyCall(k) ==
  /\ k \in ClientKeyKeys
  /\ \E proj \in {Slugify(NameA), Slugify(NameB)}, id \in {Itoa(1), Itoa(2)} :
       LET r == FakeDeleteClientKey(ClientKeys, id)
       IN ClientKeys' = r.next /\ Called(k, Call("DeleteClientKey", proj, id, r))
  /\ UNCHANGED <<Orgs, Teams, Projects>>

NextFake ==
  \/ \E k \in TeamKeys : GetTeamCall(k)
  \/ \E k \in TeamKeys : CreateTeamCall(k)
  \/ \E k \in TeamKeys : UpdateTeamCall(k)
  \/ \E k \in TeamKeys : DeleteTeamCall(k)
  \/ \E k \in ProjectKeys : GetProjectCall(k)
  \/ \E k \in ProjectKeys : CreateProjectCall(k)
  \/ \E k \in ProjectKeys : UpdateProjectCall(k)
  \/ \E k \in ProjectKeys : DeleteProjectCall(k)
  \/ \E k \in ClientKeyKeys : GetClientKeysCall(k)
  \/ \E k \in ClientKeyKeys : NewClientKeyCall(k)
  \/ \E k \in ClientKeyKeys : UpdateClientKeyCall(k)
  \/ \E k \in ClientKeyKeys : RemoveClientKeyCall(k)

SpecFake == InitFake /\ [][NextFake]_vars

\* ------------------------------------------- httpClient.do, called directly
\* a request made for an object of kind k: what the server did and what do
\* returned
DoCall(k) ==
  /\ k \in Keys
  /\ \E failed, decode \in BOOLEAN,
        status \in {StatusOK, StatusCreated, StatusNoContent, StatusNotFound, StatusServerError},
        body \in {EmptyString, <<"{", "}">>, <<"o", "o", "p", "s">>} :
       Called(k, [op |-> "do", failed |-> failed, status |-> status, body |-> body,
                  decode |-> decode, ret |-> httpDo(failed, status, body, decode)])
  /\ UNCHANGED Sentry

NextDo == \E k \in Keys : DoCall(k)

SpecDo == InitFake /\ [][NextDo]_vars

\* ------------------ reconciler.go: the reconcilers that read slugs from spec
\* Objects whose spec names the team and the project by slug; when `recorded`
\* they carry the marker and name upstream entities in their status, which
\* exist unless `gone`; they are under deletion if `deleting`.
InitDirect ==
  /\ \E recorded, deleting, gone \in BOOLEAN :
       /\ kube = [k \in Keys |->
            [DeletionTimestamp |-> deleting,
             Finalizers |-> IF recorded THEN <<otherFinalizer, finalizerName>> ELSE <<otherFinalizer>>,
             Spec |-> IF k \in TeamKeys THEN [Name |-> NameA]
                      ELSE IF k \in ProjectKeys THEN [Name |-> NameA, Team |-> Slugify(NameA)]
                      ELSE [Name |-> NameA, Project |-> Slugify(NameA)],
             Status |-> IF k \in TeamKeys
                        THEN [Slug |-> IF recorded THEN Slugify(NameA) ELSE EmptyString]
                        ELSE IF k \in ProjectKeys
                        THEN IF recorded THEN [Slug |-> Slugify(NameA), Team |-> Slugify(NameA)]
                             ELSE [Slug |-> EmptyString, Team |-> EmptyString]
                        ELSE IF recorded THEN [ID |-> Itoa(1), Project |-> Slugify(NameA)]
                             ELSE ClientKeyStatusEmpty]]
       /\ Teams = IF recorded /\ ~gone THEN <<[Name |-> NameB, Slug |-> Slugify(NameA)]>> ELSE <<>>
       /\ Projects = IF recorded /\ ~gone
                     THEN <<[Name |-> NameB, Slug |-> Slugify(NameA), Team |-> Slugify(NameA)]>>
                     ELSE <<>>
       /\ ClientKeys = IF recorded /\ ~gone THEN <<[ID |-> Itoa(1), Name |-> NameB, DSN |-> FakeDSN]>>
                       ELSE <<>>
  /\ secrets = [k \in ClientKeyKeys |-> NotFound]
  /\ Orgs = <<managedOrg>>
  /\ pc = [k \in Keys |-> "idle"]
  /\ instance = [k \in Keys |-> NotFound]
  /\ key = [k \in ClientKeyKeys |-> Nil]
  /\ dep = [k \in ProjectKeys \cup ClientKeyKeys |-> EmptyString]
  /\ found = [k \in ClientKeyKeys |-> NotFound]
  /\ stale = [k \in Keys |-> FALSE]
  /\ staleSecret = [k \in ClientKeyKeys |-> FALSE]
  /\ result = [k \in Keys |-> "none"]
  /\ log = [k \in Keys |-> <<>>]
  /\ faults = 0 /\ edits = 0
  /\ mode = "serial"
  /\ created = [k \in Keys |-> 0]

\* A whole attempt for k, from its kube.Get to its return, with no other step
\* in between and every store call succeeding: obj is the object it leaves in
\* the store, res what it returned. log counts the attempts.
DirectReturn(k, obj, res) ==
  /\ Len(log[k]) < MaxAttempts
  /\ kube' = [kube EXCEPT ![k] = obj]
  /\ result' = [result EXCEPT ![k] = res]
  /\ log' = [log EXCEPT ![k] = Append(@, Entry("Reconcile", NoResponse, res # "ok"))]
  /\ UNCHANGED <<Orgs, pc, instance, key, dep, found, stale, staleSecret, faults, edits, mode, created>>

\* reconcilerSet.Team of reconciler.go
DirectTeam(k) ==
  /\ k \in TeamKeys /\ MayStart(k) /\ kube[k] # NotFound
  /\ LET obj == kube[k]
         slug == obj.Status.Slug
         marked == IF hasFinalizer(obj) THEN obj ELSE [obj EXCEPT !.Finalizers = Append(@, finalizerName)]
         get == FakeGetTeam(Teams, slug)
         new == FakeCreateTeam(Teams, obj.Spec.Name, EmptyString)
         out == IF FakeGetOrganization(Orgs, managedOrg).err THEN <<obj, Teams, "err">>
                ELSE IF obj.DeletionTimestamp
                THEN IF ~hasFinalizer(obj) THEN <<obj, Teams, "ok">>
                     ELSE IF slug = EmptyString THEN <<removeFinalizer(obj), Teams, "ok">>
                     ELSE IF get.err THEN <<obj, Teams, "err">>
                     ELSE <<removeFinalizer(obj), FakeDeleteTeam(Teams, slug).next, "ok">>
                ELSE IF slug = EmptyString
                THEN <<[marked EXCEPT !.Status.Slug = new.val.Slug], new.next, "ok">>
                ELSE IF get.err THEN <<marked, Teams, "err">>
                ELSE <<marked, FakeUpdateTeamName(Teams, slug, obj.Spec.Name).next, "ok">>
     IN Teams' = out[2] /\ DirectReturn(k, out[1], out[3])
  /\ UNCHANGED <<Projects, ClientKeys, secrets>>

\* reconcilerSet.Project of reconciler.go. After a 404 of GetProject the
\* deletion branch goes on with the zero Project, whose Slug is nil:
\* DeleteProject, or the message of the error it returns, dereferences it.
DirectProject(k) ==
  /\ k \in ProjectKeys /\ MayStart(k) /\ kube[k] # NotFound
  /\ LET obj == kube[k]
         slug == obj.Status.Slug
         marked == IF hasFinalizer(obj) THEN obj ELSE [obj EXCEPT !.Finalizers = Append(@, finalizerName)]
         get == FakeGetProject(Projects, slug)
         p == [Name |-> obj.Spec.Name, Slug |-> Slugify(obj.Spec.Name), Team |-> obj.Spec.Team]
         out == IF FakeGetOrganization(Orgs, managedOrg).err THEN <<obj, Projects, "err">>
                ELSE IF obj.DeletionTimestamp
                THEN IF ~hasFinalizer(obj) THEN <<obj, Projects, "ok">>
                     ELSE IF slug = EmptyString
                     THEN <<[removeFinalizer(obj) EXCEPT !.Status = [Slug |-> EmptyString, Team |-> EmptyString]],
                            Projects, "ok">>
                     ELSE IF get.err THEN <<obj, Projects, "panic">>
                     ELSE <<[removeFinalizer(obj) EXCEPT !.Status = [Slug |-> EmptyString, Team |-> EmptyString]],
                            FakeDeleteProject(Projects, slug).next, "ok">>
                ELSE IF FakeGetTeam(Teams, obj.Spec.Team).err THEN <<marked, Projects, "err">>
                ELSE IF slug = EmptyString
                THEN <<[marked EXCEPT !.Status = [Slug |-> p.Slug, Team |-> obj.Spec.Team]],
                       Append(Projects, p), "ok">>
                ELSE IF get.err THEN <<marked, Projects, "err">>
                ELSE <<[marked EXCEPT !.Status.Team = obj.Spec.Team],
                       FakeUpdateProjectName(Projects, slug, obj.Spec.Name).next, "ok">>
     IN Projects' = out[2] /\ DirectReturn(k, out[1], out[3])
  /\ UNCHANGED <<Teams, ClientKeys, secrets>>

\* reconcilerSet.ClientKey of reconciler.go
DirectClientKey(k) ==
  /\ k \in ClientKeyKeys /\ MayStart(k) /\ kube[k] # NotFound
  /\ LET obj == kube[k]
         id == obj.Status.ID
         marked == IF hasFinalizer(obj) THEN obj ELSE [obj EXCEPT !.Finalizers = Append(@, finalizerName)]
         del == FakeDeleteClientKey(ClientKeys, id)
         new == [ID |-> Itoa(Len(ClientKeys) + 1), Name |-> obj.Spec.Name, DSN |-> FakeDSN]
         i == IndexByID(ClientKeys, id)
         sec(kk) == IF secrets[k] = NotFound THEN newSecret(k, kk)
                    ELSE [secrets[k] EXCEPT !.Data = secretData(kk)]
         out == IF FakeGetOrganization(Orgs, managedOrg).err THEN <<obj, ClientKeys, "err", secrets[k]>>
                ELSE IF obj.DeletionTimestamp
                THEN IF ~hasFinalizer(obj) THEN <<obj, ClientKeys, "ok", secrets[k]>>
                     ELSE IF id = EmptyString
                     THEN <<[removeFinalizer(obj) EXCEPT !.Status = ClientKeyStatusEmpty],
                            ClientKeys, "ok", secrets[k]>>
                     ELSE IF FakeGetProject(Projects, obj.Status.Project).err \/ del.err
                     THEN <<obj, ClientKeys, "err", secrets[k]>>
                     ELSE <<[removeFinalizer(obj) EXCEPT !.Status = ClientKeyStatusEmpty],
                            del.next, "ok", secrets[k]>>
                ELSE IF FakeGetProject(Projects, obj.Spec.Project).err
                THEN <<marked, ClientKeys, "err", secrets[k]>>
                ELSE IF id = EmptyString
                THEN <<[marked EXCEPT !.Status = [ID |-> new.ID, Project |-> obj.Spec.Project]],
                       Append(ClientKeys, new), "ok", sec(new)>>
                ELSE IF i = 0 THEN <<marked, ClientKeys, "err", secrets[k]>>
                ELSE <<marked, [ClientKeys EXCEPT ![i].Name = obj.Spec.Name], "ok", sec(ClientKeys[i])>>
     IN /\ ClientKeys' = out[2]
        /\ secrets' = [secrets EXCEPT ![k] = out[4]]
        /\ DirectReturn(k, out[1], out[3])
  /\ UNCHANGED <<Teams, Projects>>

NextDirect ==
  \/ \E k \in TeamKeys : DirectTeam(k)
  \/ \E k \in ProjectKeys : DirectProject(k)
  \/ \E k \in ClientKeyKeys : DirectClientKey(k)
  \/ \E k \in Keys : MarkDeleted(k)
  \/ SentryRemoveTeam
  \/ SentryRemoveProject
  \/ SentryRemoveClientKey

SpecDirect == InitDirect /\ [][NextDirect]_vars

\* --------------------------- objects under deletion whose references are lost
\* Objects under deletion that carry the marker and record their entities,
\* while the objects in `lost` (a Team, a Project or both) are no longer in
\* the store and, if `gone`, the team and the project no longer exist upstream.
InitOrphans ==
  /\ \E gone \in BOOLEAN, lost \in (SUBSET (TeamKeys \cup ProjectKeys)) \ {{}} :
       /\ kube = [k \in Keys |->
            IF k \in lost THEN NotFound
            ELSE IF k \in TeamKeys
            THEN [DeletionTimestamp |-> TRUE, Finalizers |-> <<otherFinalizer, finalizerName>>,
                  Spec |-> [Name |-> NameA], Status |-> [Slug |-> Slugify(NameA)]]
            ELSE IF k \in ProjectKeys
            THEN [DeletionTimestamp |-> TRUE, Finalizers |-> <<otherFinalizer, finalizerName>>,
                  Spec |-> [Name |-> NameA, TeamRef |-> "t1"], Status |-> [Slug |-> Slugify(NameA)]]
            ELSE [DeletionTimestamp |-> TRUE, Finalizers |-> <<otherFinalizer, finalizerName>>,
                  Spec |-> [Name |-> NameA, ProjectRef |-> "p1"],
                  Status |-> [ID |-> Itoa(1), Project |-> Slugify(NameA)]]]
       /\ Teams = IF gone THEN <<>> ELSE <<[Name |-> NameA, Slug |-> Slugify(NameA)]>>
       /\ Projects = IF gone THEN <<>> ELSE <<[Name |-> NameA, Slug |-> Slugify(NameA)]>>
  /\ ClientKeys = <<[ID |-> Itoa(1), Name |-> NameA, DSN |-> FakeDSN]>>
  /\ secrets = [k \in ClientKeyKeys |-> newSecret(k, [DSN |-> FakeDSN])]
  /\ Orgs = <<managedOrg>>
  /\ pc = [k \in Keys |-> "idle"]
  /\ instance = [k \in Keys |-> NotFound]
  /\ key = [k \in ClientKeyKeys |-> Nil]
  /\ dep = [k \in ProjectKeys \cup ClientKeyKeys |-> EmptyString]
  /\ found = [k \in ClientKeyKeys |-> NotFound]
  /\ stale = [k \in Keys |-> FALSE]
  /\ staleSecret = [k \in ClientKeyKeys |-> FALSE]
  /\ result = [k \in Keys |-> "none"]
  /\ log = [k \in Keys |-> <<>>]
  /\ faults = 0 /\ edits = 0
  /\ mode = "concurrent"
  /\ created = [k \in Keys |-> 0]

SpecOrphans == InitOrphans /\ [][NextFair]_vars

\* ------------------------------------------------- two Teams in one cluster
\* Two Team objects, t1 and t2, as declared, each with a name of its own
\* choice; nothing upstream but the organization.
InitTwins ==
  /\ \E n1, n2 \in Names :
       kube = [k \in Keys \cup {"t2"} |->
                 IF k \in {"t1", "t2"}
                 THEN [DeletionTimestamp |-> FALSE, Finalizers |-> <<>>,
                       Spec |-> [Name |-> IF k = "t1" THEN n1 ELSE n2], Status |-> TeamStatusEmpty]
                 ELSE NotFound]
  /\ secrets = [k \in ClientKeyKeys |-> NotFound]
  /\ Orgs = <<managedOrg>> /\ Teams = <<>> /\ Projects = <<>> /\ ClientKeys = <<>>
  /\ pc = [k \in Keys \cup {"t2"} |-> "idle"]
  /\ instance = [k \in Keys \cup {"t2"} |-> NotFound]
  /\ key = [k \in ClientKeyKeys |-> Nil]
  /\ dep = [k \in ProjectKeys \cup ClientKeyKeys |-> EmptyString]
  /\ found = [k \in ClientKeyKeys |-> NotFound]
  /\ stale = [k \in Keys \cup {"t2"} |-> FALSE]
  /\ staleSecret = [k \in ClientKeyKeys |-> FALSE]
  /\ result = [k \in Keys \cup {"t2"} |-> "none"]
  /\ log = [k \in Keys \cup {"t2"} |-> <<>>]
  /\ faults = 0 /\ edits = 0
  /\ mode = "serial"
  /\ created = [k \in Keys \cup {"t2"} |-> 0]

\* reconcilerSet.Team of reconciler_test.go for the Team object k, as one
\* attempt whose calls all get their answer from the Fake
TwinTeam(k) ==
  /\ k \in {"t1", "t2"} /\ pc[k] = "idle" /\ kube[k] # NotFound
  /\ LET obj == kube[k]
         slug == obj.Status.Slug
         marked == IF hasFinalizer(obj) THEN obj ELSE addFinalizer(obj)
         del == FakeDeleteTeam(Teams, slug)
         new == FakeCreateTeam(Teams, obj.Spec.Name, EmptyString)
         get == FakeGetTeam(Teams, slug)
         out == IF FakeGetOrganization(Orgs, managedOrg).err THEN <<obj, Teams, "err">>
                ELSE IF obj.DeletionTimestamp
                THEN IF ~hasFinalizer(obj) THEN <<obj, Teams, "ok">>
                     ELSE IF slug = EmptyString
                     THEN <<removeFinalizer([obj EXCEPT !.Status = TeamStatusEmpty]), Teams, "ok">>
                     ELSE IF deleteOutcome(del) # "proceed" THEN <<obj, Teams, deleteOutcome(del)>>
                     ELSE <<removeFinalizer([obj EXCEPT !.Status = TeamStatusEmpty]), del.next, "ok">>
                ELSE IF slug = EmptyString
                THEN <<[marked EXCEPT !.Status.Slug = new.val.Slug], new.next, "ok">>
                ELSE IF get.err THEN <<marked, Teams, "err">>
                ELSE IF get.val.Name = obj.Spec.Name THEN <<marked, Teams, "ok">>
                ELSE <<marked, FakeUpdateTeamName(Teams, slug, obj.Spec.Name).next, "ok">>
     IN Teams' = out[2] /\ DirectReturn(k, out[1], out[3])
  /\ UNCHANGED <<Projects, ClientKeys, secrets>>

NextTwins ==
  \/ \E k \in {"t1", "t2"} : TwinTeam(k)
  \/ \E k \in {"t1", "t2"} : MarkDeleted(k)
  \/ \E k \in {"t1", "t2"} : EditSpecName(k)
  \/ SentryRemoveTeam

SpecTwins == InitTwins /\ [][NextTwins]_vars

\* ================================================================== claims
DeleteOps == {"DeleteTeam", "DeleteProject", "DeleteClientKey"}
CreateOps == {"CreateTeam", "CreateProject", "CreateClientKey"}
RenameOps == {"UpdateTeamName", "UpdateProjectName", "UpdateClientKeyName"}
StoreWriteOps == {"kube.Update", "kube.Create:secret", "kube.Update:secret"}

Last(s) == s[Len(s)]

\* the upstream identifier the status of k's object holds
StatusId(k, obj) == IF k \in ClientKeyKeys THEN obj.Status.ID ELSE obj.Status.Slug

\* the entity of k's kind with identifier id exists among the given entities
UpstreamHas(k, id, teams, projects, keys) ==
  IF k \in TeamKeys THEN \E i \in 1..Len(teams) : teams[i].Slug = id
  ELSE IF k \in ProjectKeys THEN \E i \in 1..Len(projects) : projects[i].Slug = id
  ELSE \E i \in 1..Len(keys) : keys[i].ID = id

\* the stored object exists and carries the marker
Carries(obj) == obj # NotFound /\ hasFinalizer(obj)

\* this step is a call of the attempt for k
Acted(k) == log'[k] # log[k] /\ log'[k] # <<>>

\* the attempt for k ends with this step
Finishes(k) == pc[k] # "idle" /\ pc'[k] = "idle" /\ result'[k] # "stopped"

\* ---- C1
\* C1: for every kind, a step that takes the marker from a stored object under
\* deletion whose status holds an upstream identifier belongs to an attempt
\* whose upstream delete call returned success or 404, and after the step the
\* entity the status named does not exist upstream.
C1_MarkerUntilDeleted ==
  [][\A k \in Keys :
       (/\ Carries(kube[k]) /\ kube[k].DeletionTimestamp
        /\ StatusId(k, kube[k]) # EmptyString
        /\ ~Carries(kube'[k]))
       => /\ \E i \in 1..Len(log'[k]) :
               /\ log'[k][i].op \in DeleteOps
               /\ ~log'[k][i].err \/ log'[k][i].status = StatusNotFound
          /\ ~UpstreamHas(k, StatusId(k, kube[k]), Teams', Projects', ClientKeys')]_vars

\* An attempt deleted the entity upstream and then stored the object without the marker.
C1_Witness ==
  \E k \in Keys :
    /\ result[k] = "ok" /\ Len(log[k]) = 4
    /\ log[k][3].op \in DeleteOps /\ ~log[k][3].err
    /\ log[k][4] = Entry("kube.Update", NoResponse, FALSE)
    /\ kube[k] # NotFound /\ kube[k].DeletionTimestamp /\ ~hasFinalizer(kube[k])

\* ---- C2
\* C2: for every kind, when the last call of an attempt is an upstream delete
\* that failed with a status other than 404, the attempt has returned an error
\* and the stored object carries the marker and the status the attempt read.
C2_DeleteFailureKeepsMarker ==
  \A k \in Keys :
    (/\ log[k] # <<>>
     /\ Last(log[k]).op \in DeleteOps /\ Last(log[k]).err
     /\ Last(log[k]).status \notin {StatusNotFound, NoResponse})
    => /\ result[k] = "err" /\ pc[k] = "idle"
       /\ Carries(kube[k])
       /\ kube[k].Status = instance[k].Status
       /\ StatusId(k, kube[k]) # EmptyString

\* The upstream delete answered 500 and the attempt returned an error.
C2_Witness ==
  \E k \in Keys :
    /\ log[k] # <<>> /\ Last(log[k]).op \in DeleteOps
    /\ Last(log[k]).err /\ Last(log[k]).status = StatusServerError
    /\ result[k] = "err" /\ Carries(kube[k])

\* ---- C3
\* C3 (as amended): for every kind, an attempt whose upstream delete returned 404
\* goes on to the store update of the object without the marker and returns
\* what that update returns: no error, with the object stored without the
\* marker, when the update succeeds; the update's error, with the marker still
\* in the store, when it fails.
C3_NotFoundCompletesIfStored ==
  \A k \in Keys :
    (/\ Len(log[k]) >= 3
     /\ log[k][3].op \in DeleteOps /\ log[k][3].status = StatusNotFound)
    => /\ Len(log[k]) <= 4
       /\ Len(log[k]) = 3 => pc[k] = "UpdateDeleted" \/ result[k] = "stopped"
       /\ Len(log[k]) = 4 =>
            /\ log[k][4].op = "kube.Update" /\ pc[k] = "idle"
            /\ IF log[k][4].err
               THEN result[k] = "err" /\ Carries(kube[k])
               ELSE result[k] = "ok" /\ ~Carries(kube[k])

\* The upstream delete answered 404 and the object is stored without the marker.
C3_Witness ==
  \E k \in Keys :
    /\ Len(log[k]) = 4
    /\ log[k][3].op \in DeleteOps /\ log[k][3].status = StatusNotFound
    /\ ~log[k][4].err /\ result[k] = "ok"
    /\ kube[k] # NotFound /\ ~hasFinalizer(kube[k])

\* C3 as stated: every attempt whose upstream delete returned 404 returns no
\* error and has stored the object without the marker.
C3_AsStated ==
  \A k \in Keys :
    (/\ Len(log[k]) >= 3
     /\ log[k][3].op \in DeleteOps /\ log[k][3].status = StatusNotFound
     /\ pc[k] = "idle" /\ result[k] # "stopped")
    => result[k] = "ok" /\ ~Carries(kube[k])

\* ---- C4
\* C4 as stated: the attempts for one object create at most one upstream entity.
C4_AtMostOneCreated == \A k \in Keys : created[k] <= 1

\* Two entities created for one object whose status nobody but the reconciler wrote.
C4_Witness == \E k \in Keys : created[k] = 2 /\ edits = 0

\* ---- C5
\* C5: for every kind, an upstream create call is made only while the stored
\* object carries the marker; and an attempt whose store update adding the
\* marker fails ends with an error at that call, leaving the upstream entities
\* as they were and having made no upstream create, rename or delete call.
C5_MarkerBeforeCreate ==
  [][\A k \in Keys :
       /\ (Acted(k) /\ Last(log'[k]).op \in CreateOps) => Carries(kube[k])
       /\ (Acted(k) /\ pc[k] = "AddFinalizer" /\ Last(log'[k]).err)
          => /\ result'[k] = "err" /\ pc'[k] = "idle"
             /\ Sentry' = Sentry
             /\ \A i \in 1..Len(log'[k]) :
                  log'[k][i].op \notin CreateOps \cup RenameOps \cup DeleteOps]_vars

\* An attempt stored the marker and then created the entity upstream.
C5_Witness ==
  \E k \in Keys :
    /\ Len(log[k]) >= 4
    /\ log[k][3] = Entry("kube.Update", NoResponse, FALSE)
    /\ Last(log[k]).op \in CreateOps /\ ~Last(log[k]).err
    /\ Carries(kube[k]) /\ created[k] = 1

\* ---- C6
\* C6: a ClientKey attempt that made the upstream create call (so it read an
\* object not under deletion with empty status.id) and returns success has
\* made that call once, for a key named spec.name; the stored object holds the
\* key's id in status.id, the slug of the referenced Project in status.project
\* and the marker; and the Secret holds the key's three DSN values.  With no
\* other client at work the key is among the upstream keys.
C6_CreatesKeyAndSecret ==
  [][\A k \in ClientKeyKeys :
       (/\ Finishes(k) /\ result'[k] = "ok"
        /\ \E i \in 1..Len(log'[k]) : log'[k][i].op = "CreateClientKey")
       => /\ Cardinality({i \in 1..Len(log'[k]) : log'[k][i].op = "CreateClientKey"}) = 1
          /\ ~instance'[k].DeletionTimestamp
          /\ key'[k].Name = instance'[k].Spec.Name
          /\ Carries(kube'[k])
          /\ kube'[k].Status.ID = key'[k].ID
          /\ kube'[k].Status.Project = dep'[k]
          /\ kube'[instance'[k].Spec.ProjectRef] # NotFound
          /\ dep'[k] = kube'[instance'[k].Spec.ProjectRef].Status.Slug
          /\ secrets'[k] # NotFound
          /\ secrets'[k].Data["dsn.public"] = key'[k].DSN.Public
          /\ secrets'[k].Data["dsn.secret"] = key'[k].DSN.Secret
          /\ secrets'[k].Data["dsn.csp"] = key'[k].DSN.CSP
          /\ edits' = 0 => \E i \in 1..Len(ClientKeys') : ClientKeys'[i] = key'[k]]_vars

\* A ClientKey attempt created the key and the Secret and returned success.
C6_Witness ==
  \E k \in ClientKeyKeys :
    /\ result[k] = "ok" /\ created[k] = 1
    /\ \E i \in 1..Len(log[k]) : log[k][i] = Entry("CreateClientKey", NoResponse, FALSE)
    /\ Last(log[k]) = Entry("kube.Create:secret", NoResponse, FALSE)
    /\ secrets[k] # NotFound /\ kube[k].Status.ID = key[k].ID

\* ---- C7
\* the object of k is converged: stored with the marker, not under deletion,
\* its status naming an upstream entity whose name is spec.name and, for a
\* ClientKey, the Secret holding that key's DSN values
Converged(k) ==
  /\ Carries(kube[k]) /\ ~kube[k].DeletionTimestamp
  /\ StatusId(k, kube[k]) # EmptyString
  /\ IF k \in TeamKeys
     THEN LET r == FakeGetTeam(Teams, kube[k].Status.Slug)
          IN ~r.err /\ r.val.Name = kube[k].Spec.Name
     ELSE IF k \in ProjectKeys
     THEN LET r == FakeGetProject(Projects, kube[k].Status.Slug)
          IN ~r.err /\ r.val.Name = kube[k].Spec.Name
     ELSE LET uk == findKey(ClientKeys, kube[k].Status.ID)
          IN /\ uk # Nil /\ uk.Name = kube[k].Spec.Name
             /\ secrets[k] # NotFound /\ secrets[k].Data = secretData(uk)

\* C7: every call of an attempt for a converged object, the attempt working on
\* the object as stored, is a read: it leaves the store and the upstream
\* entities as they were and is no upstream create, rename or delete and no
\* store update or create.
C7_SecondAttemptNoOp ==
  [][\A k \in Keys :
       (Converged(k) /\ (pc[k] = "idle" \/ instance[k] = kube[k]) /\ Acted(k))
       => /\ kube' = kube /\ secrets' = secrets /\ Sentry' = Sentry
          /\ Last(log'[k]).op \notin CreateOps \cup RenameOps \cup DeleteOps \cup StoreWriteOps]_vars

\* A ClientKey attempt for a converged object ran to its end, reading only.
C7_Witness ==
  \E k \in ClientKeyKeys :
    /\ Converged(k) /\ instance[k] = kube[k]
    /\ result[k] = "ok" /\ Len(log[k]) = 5
    /\ log[k][4] = Entry("GetClientKeys", NoResponse, FALSE)
    /\ log[k][5] = Entry("kube.Get:secret", NoResponse, FALSE)

\* ---- C8
\* C8: when an attempt for a ClientKey it read as not under deletion returns
\* success, the Secret exists, its data has exactly the entries dsn.public,
\* dsn.secret and dsn.csp, and they hold the DSN values of the key the attempt
\* resolved, whose id is status.id and whose DSN every upstream key of that id has.
C8_SecretMirrorsKey ==
  [][\A k \in ClientKeyKeys :
       (/\ Finishes(k) /\ result'[k] = "ok"
        /\ instance'[k] # NotFound /\ ~instance'[k].DeletionTimestamp)
       => /\ secrets'[k] # NotFound /\ kube'[k] # NotFound
          /\ DOMAIN secrets'[k].Data = {"dsn.public", "dsn.secret", "dsn.csp"}
          /\ key'[k].ID = kube'[k].Status.ID
          /\ secrets'[k].Data["dsn.public"] = key'[k].DSN.Public
          /\ secrets'[k].Data["dsn.secret"] = key'[k].DSN.Secret
          /\ secrets'[k].Data["dsn.csp"] = key'[k].DSN.CSP
          /\ \A i \in 1..Len(ClientKeys') :
               ClientKeys'[i].ID = kube'[k].Status.ID => ClientKeys'[i].DSN = key'[k].DSN]_vars

\* A Secret written by hand, with other data, now holds the DSN of the key.
C8_Witness ==
  \E k \in ClientKeyKeys :
    /\ result[k] = "ok" /\ found[k] = handSecret
    /\ Last(log[k]) = Entry("kube.Update:secret", NoResponse, FALSE)
    /\ secrets[k] # NotFound /\ secrets[k].Data["dsn.public"] = NewDSN.Public
    /\ key[k].DSN = NewDSN

\* ---- C9
\* C9 as stated: after a successful attempt for a ClientKey not under deletion
\* the Secret has the ClientKey as its controller owner.
C9_SecretOwned ==
  \A k \in ClientKeyKeys :
    (/\ pc[k] = "idle" /\ result[k] = "ok"
     /\ instance[k] # NotFound /\ ~instance[k].DeletionTimestamp
     /\ secrets[k] # NotFound)
    => secrets[k].Owner = k

\* A successful attempt updated the data of a Secret that has no owner, and it has none still.
C9_Witness ==
  \E k \in ClientKeyKeys :
    /\ pc[k] = "idle" /\ result[k] = "ok"
    /\ Last(log[k]) = Entry("kube.Update:secret", NoResponse, FALSE)
    /\ found[k].Owner = NoOwner
    /\ secrets[k] # NotFound /\ secrets[k].Owner = NoOwner

\* ---- C10
\* C10: for every kind, an attempt whose kube.Get finds no object for the key
\* returns success at once: that Get is its only call, and the store and the
\* upstream entities are as they were.
C10_AbsentObjectNoOp ==
  [][\A k \in Keys :
       (/\ pc[k] = "idle" /\ kube[k] = NotFound /\ Acted(k)
        /\ log'[k][1].status = StatusNotFound)
       => /\ result'[k] = "ok" /\ pc'[k] = "idle"
          /\ log'[k] = <<Entry("kube.Get", StatusNotFound, TRUE)>>
          /\ kube' = kube /\ secrets' = secrets /\ Sentry' = Sentry]_vars

\* An attempt for a key without object returned success after its kube.Get.
C10_Witness ==
  \E k \in Keys :
    /\ kube[k] = NotFound /\ result[k] = "ok" /\ pc[k] = "idle"
    /\ log[k] = <<Entry("kube.Get", StatusNotFound, TRUE)>>

\* ---- C11
\* C11: for every kind, when the managed organization is not among the upstream
\* organizations, or the GetOrganization call fails, the attempt ends at that
\* call with an error; its only call before was the kube.Get of the object,
\* and neither call changed the store or the upstream entities.
C11_OrgUnresolved ==
  [][\A k \in Keys :
       /\ (Acted(k) /\ pc[k] = "idle")
          => kube' = kube /\ secrets' = secrets /\ Sentry' = Sentry
       /\ (/\ Acted(k) /\ pc[k] = "GetOrganization"
           /\ \/ ~\E i \in 1..Len(Orgs) : Orgs[i] = managedOrg
              \/ Last(log'[k]).err)
          => /\ result'[k] = "err" /\ pc'[k] = "idle"
             /\ Len(log'[k]) = 2 /\ log'[k][1].op = "kube.Get"
             /\ log'[k][2] = Entry("GetOrganization", NoResponse, TRUE)
             /\ kube' = kube /\ secrets' = secrets /\ Sentry' = Sentry]_vars

\* The organization is missing upstream; the attempt returned an error and the
\* object is stored as declared, without marker and status.
C11_Witness ==
  \E k \in Keys :
    /\ Orgs = <<>> /\ result[k] = "err"
    /\ log[k] = <<Entry("kube.Get", NoResponse, FALSE), Entry("GetOrganization", NoResponse, TRUE)>>
    /\ kube[k] # NotFound /\ ~hasFinalizer(kube[k])
    /\ StatusId(k, kube[k]) = EmptyString

\* ---- C12
\* C12: a Project attempt that looks up its teamRef while the Team object is
\* absent from the store, and a ClientKey attempt that looks up its projectRef
\* while the Project object is absent, ends at that call with an error: the
\* attempt has made no upstream create call and no Secret write, and the step
\* leaves the store, the Secrets and the upstream entities as they were.
C12_AbsentReference ==
  [][\A k \in ProjectKeys \cup ClientKeyKeys :
       (/\ Acted(k) /\ pc[k] \in {"GetTeamRef", "GetProjectRef"}
        /\ kube[IF k \in ProjectKeys THEN instance[k].Spec.TeamRef
                ELSE instance[k].Spec.ProjectRef] = NotFound)
       => /\ result'[k] = "err" /\ pc'[k] = "idle"
          /\ \A i \in 1..Len(log'[k]) :
               log'[k][i].op \notin CreateOps \cup {"kube.Create:secret", "kube.Update:secret"}
          /\ created' = created
          /\ kube' = kube /\ secrets' = secrets /\ Sentry' = Sentry]_vars

\* A ClientKey attempt found no Project object under its projectRef and returned an error.
C12_Witness ==
  \E k \in ClientKeyKeys :
    /\ result[k] = "err"
    /\ Last(log[k]) = Entry("kube.Get:projectRef", StatusNotFound, TRUE)
    /\ kube[instance[k].Spec.ProjectRef] = NotFound
    /\ ClientKeys = <<>> /\ secrets[k] = NotFound

\* ---- C13
\* A call named op is in the log, and it returned without error.
Succeeded(k, op, l) == \E i \in 1..Len(l[k]) : l[k][i].op = op /\ ~l[k][i].err

C14_MissingEntityNotRecreated ==
  [][\A k \in Keys :
       (/\ Acted(k) /\ pc[k] \in {"GetTeam", "GetProject", "GetClientKeys"}
        /\ ~UpstreamHas(k, StatusId(k, instance[k]), Teams, Projects, ClientKeys))
       => /\ ~instance[k].DeletionTimestamp
          /\ StatusId(k, instance[k]) # EmptyString
          /\ result'[k] = "err" /\ pc'[k] = "idle"
          /\ \A i \in 1..Len(log'[k]) :
               log'[k][i].op \notin CreateOps \cup {"kube.Create:secret", "kube.Update:secret"}
          /\ created' = created
          /\ kube' = kube /\ secrets' = secrets /\ Sentry' = Sentry]_vars

\* The project exists upstream, its keys were listed without error, none has
\* the id in the ClientKey's status: the attempt returned an error, the status
\* and the Secret are as before.
C14_Witness ==
  \E k \in ClientKeyKeys :
    /\ result[k] = "err"
    /\ Last(log[k]) = Entry("GetClientKeys", NoResponse, FALSE)
    /\ kube[k] # NotFound /\ kube[k].Status.ID = Itoa(1)
    /\ ClientKeys # <<>> /\ IndexByID(ClientKeys, Itoa(1)) = 0
    /\ secrets[k] = handSecret /\ created[k] = 0

\* ---- C15
\* The team slug recorded in a Project status; empty when the status has no such field.
StatusTeam(obj) == IF "Team" \in DOMAIN obj.Status THEN obj.Status.Team ELSE EmptyString

\* C15: after a successful Project attempt that created the upstream project,
\* the stored status holds the slug of the created project in status.slug and
\* the upstream slug of the referenced team, as the attempt read it, in status.team.
C15_StatusSlugAndTeam ==
  \A k \in ProjectKeys :
    (/\ pc[k] = "idle" /\ result[k] = "ok"
     /\ Succeeded(k, "CreateProject", log)
     /\ kube[k] # NotFound)
    => /\ kube[k].Status.Slug = Slugify(instance[k].Spec.Name)
       /\ StatusTeam(kube[k]) = dep[k]

\* A Project attempt created the project under the team's slug and stored the
\* project slug; the stored status consists of that slug alone.
C15_Witness ==
  \E k \in ProjectKeys :
    /\ pc[k] = "idle" /\ result[k] = "ok"
    /\ Succeeded(k, "CreateProject", log)
    /\ dep[k] # EmptyString /\ IndexBySlug(Teams, dep[k]) # 0
    /\ kube[k] # NotFound
    /\ IndexBySlug(Projects, kube[k].Status.Slug) # 0
    /\ DOMAIN kube[k].Status = {"Slug"}

\* ---- C16
\* The entities of k's kind, and those of the other kinds with the organizations.
OwnEntities(k, teams, projects, keys) ==
  IF k \in TeamKeys THEN teams ELSE IF k \in ProjectKeys THEN projects ELSE keys

OtherEntities(k, orgs, teams, projects, keys) ==
  IF k \in TeamKeys THEN <<orgs, projects, keys>>
  ELSE IF k \in ProjectKeys THEN <<orgs, teams, keys>>
  ELSE <<orgs, teams, projects>>

\* the entities without those the identifier id names, in their order
Without(k, entities, id) ==
  LET Keep(e) == (IF k \in ClientKeyKeys THEN e.ID ELSE e.Slug) # id
  IN SelectSeq(entities, Keep)

EntityId(k, e) == IF k \in ClientKeyKeys THEN e.ID ELSE e.Slug

\* the index of the first entity the identifier id names, 0 if there is none
FirstNamed(k, entities, id) ==
  IF k \in ClientKeyKeys THEN IndexByID(entities, id) ELSE IndexBySlug(entities, id)

\* the call by which an attempt for k fetches the entity its status names
FetchOp(k) ==
  IF k \in TeamKeys THEN "GetTeam" ELSE IF k \in ProjectKeys THEN "GetProject" ELSE "GetClientKeys"

\* C17: (a) a rename call that succeeds changes the name of the entity the
\* status names to spec.name and nothing else: same slug/id, same position, no
\* entity added or removed, the other kinds and the store untouched; (b) a
\* successful attempt for an object not under deletion that fetched the entity
\* its status names has made no create call, leaves the status identifier of
\* the stored object as it was, and the entity, while it exists upstream, has
\* the name spec.name of the object the attempt read.
C17_RenameConverges ==
  [][\A k \in Keys :
       /\ (Acted(k) /\ pc[k] \in RenameOps /\ ~Last(log'[k]).err)
          => LET old == OwnEntities(k, Teams, Projects, ClientKeys)
                 new == OwnEntities(k, Teams', Projects', ClientKeys')
                 i == FirstNamed(k, old, StatusId(k, instance[k]))
             IN /\ i # 0
                /\ new = [old EXCEPT ![i].Name = instance[k].Spec.Name]
                /\ EntityId(k, new[i]) = StatusId(k, instance[k])
                /\ OtherEntities(k, Orgs', Teams', Projects', ClientKeys')
                     = OtherEntities(k, Orgs, Teams, Projects, ClientKeys)
                /\ kube' = kube /\ created' = created
       /\ (/\ Finishes(k) /\ result'[k] = "ok"
           /\ Succeeded(k, FetchOp(k), log'))
          => LET new == OwnEntities(k, Teams', Projects', ClientKeys')
                 i == FirstNamed(k, new, StatusId(k, instance'[k]))
             IN /\ ~instance'[k].DeletionTimestamp
                /\ \A n \in 1..Len(log'[k]) : log'[k][n].op \notin CreateOps
                /\ created'[k] = created[k]
                /\ kube'[k] # NotFound
                     => StatusId(k, kube'[k]) = StatusId(k, instance'[k])
                /\ i # 0 => new[i].Name = instance'[k].Spec.Name]_vars

\* A ClientKey attempt renamed the key of its status and ended with success:
\* the key has the name of spec.name and its id, no key was created.
C17_Witness ==
  \E k \in ClientKeyKeys :
    /\ result[k] = "ok"
    /\ Succeeded(k, "UpdateClientKeyName", log)
    /\ kube[k] # NotFound /\ kube[k].Status.ID = Itoa(1)
    /\ findKey(ClientKeys, Itoa(1)) # Nil
    /\ findKey(ClientKeys, Itoa(1)).Name = instance[k].Spec.Name
    /\ Len(ClientKeys) = 2 /\ created[k] = 0

\* ---- C18
RECURSIVE DropAll(_)
\* the list s without the entries equal to the marker
DropAll(s) ==
  IF s = <<>> THEN <<>>
  ELSE IF Head(s) = finalizerName THEN DropAll(Tail(s))
  ELSE <<Head(s)>> \o DropAll(Tail(s))

RECURSIVE DropFirst(_)
\* the list s without its first entry equal to the marker
DropFirst(s) ==
  IF s = <<>> THEN <<>>
  ELSE IF Head(s) = finalizerName THEN Tail(s)
  ELSE <<Head(s)>> \o DropFirst(Tail(s))

\* C18: removeFinalizer applied to an object with any finalizer list leaves
\* the list without any occurrence of the marker: every occurrence is removed,
\* every other entry is kept in its original order, the list is empty when no
\* other entry remains, and no other field of the object changes.
C18_RemovesEveryMarker ==
  \A k \in TeamKeys :
    pc[k] = "removed"
    => /\ instance[k].Finalizers = DropAll(kube[k].Finalizers)
       /\ ~hasFinalizer(instance[k])
       /\ instance[k] = [kube[k] EXCEPT !.Finalizers = instance[k].Finalizers]

\* removeFinalizer was applied to a list with the marker twice, around another
\* finalizer: the other finalizer is all that is left.
C18_Witness ==
  \E k \in TeamKeys :
    /\ pc[k] = "removed"
    /\ kube[k].Finalizers = <<finalizerName, otherFinalizer, finalizerName>>
    /\ instance[k].Finalizers = <<otherFinalizer>>

\* C18 as stated: exactly one occurrence of the marker, the first, is removed.
C18_AsStated ==
  \A k \in TeamKeys :
    pc[k] = "removed" => instance[k].Finalizers = DropFirst(kube[k].Finalizers)

\* ---- C19
\* C19: for every kind, when the last call of an attempt is an upstream delete
\* that failed without an HTTP response, the attempt has returned an error and
\* the stored object carries the marker and the status the attempt read.
C19_NoResponseReturnsError ==
  \A k \in Keys :
    (/\ log[k] # <<>>
     /\ Last(log[k]).op \in DeleteOps /\ Last(log[k]).err
     /\ Last(log[k]).status = NoResponse)
    => /\ result[k] = "err" /\ pc[k] = "idle"
       /\ Carries(kube[k])
       /\ kube[k].Status = instance[k].Status
       /\ StatusId(k, kube[k]) # EmptyString

\* The upstream delete failed without a response: the attempt did not return,
\* the reconciler panicked; marker and status are still stored.
C19_Witness ==
  \E k \in Keys :
    /\ log[k] # <<>> /\ Last(log[k]).op \in DeleteOps
    /\ Last(log[k]).err /\ Last(log[k]).status = NoResponse
    /\ result[k] = "panic" /\ pc[k] = "idle"
    /\ Carries(kube[k]) /\ kube[k].Status = instance[k].Status
    /\ StatusId(k, kube[k]) # EmptyString

\* ---- C20
\* The failing call i of k's attempt is a not-found the reconciler answers:
\* on the initial fetch (object gone), on the upstream delete (entity gone),
\* and on the fetch of the Secret, which the attempt then creates.
AnsweredNotFound(k, i) ==
  /\ log[k][i].status = StatusNotFound
  /\ \/ i = 1 /\ log[k][i].op = "kube.Get"
     \/ log[k][i].op \in DeleteOps
     \/ log[k][i].op = "kube.Get:secret"

\* C20: for every kind, a failing store or upstream call of an attempt, other
\* than an answered not-found, is the attempt's last call, and the attempt has
\* returned an error.
C20_FailureReturnsError ==
  \A k \in Keys :
    \A i \in 1..Len(log[k]) :
      (log[k][i].err /\ ~AnsweredNotFound(k, i))
      => /\ i = Len(log[k])
         /\ pc[k] = "idle" /\ result[k] = "err"

\* A ClientKey attempt under deletion: the fetch and GetOrganization went
\* well, DeleteClientKey failed without response, no error was returned.
C20_Witness ==
  \E k \in ClientKeyKeys :
    /\ Len(log[k]) = 3
    /\ ~log[k][1].err /\ ~log[k][2].err
    /\ log[k][3] = Entry("DeleteClientKey", NoResponse, TRUE)
    /\ pc[k] = "idle" /\ result[k] # "err"

\* ---- C21
\* how often the marker occurs in the list fs
Markers(fs) == Cardinality({i \in 1..Len(fs) : fs[i] = finalizerName})

\* C21: for every kind, (a) a marker update that succeeds, made by an attempt
\* for an object not under deletion whose list lacks the marker, stores the
\* previous list with the marker appended once and changes nothing else of the
\* object; (b) no call of an attempt changes the finalizer list of a stored
\* object that is not under deletion and carries the marker; (c) in every
\* state the marker occurs at most once in a stored list.
C21_MarkerAddedOnce ==
  [][\A k \in Keys :
       /\ (Acted(k) /\ pc[k] = "AddFinalizer" /\ ~Last(log'[k]).err)
          => /\ ~instance[k].DeletionTimestamp
             /\ Markers(kube[k].Finalizers) = 0
             /\ kube'[k] = [kube[k] EXCEPT !.Finalizers = Append(kube[k].Finalizers, finalizerName)]
             /\ Markers(kube'[k].Finalizers) = 1
       /\ (/\ Acted(k) /\ kube[k] # NotFound
           /\ ~kube[k].DeletionTimestamp /\ Markers(kube[k].Finalizers) > 0)
          => /\ kube'[k] # NotFound
             /\ kube'[k].Finalizers = kube[k].Finalizers
       /\ kube'[k] # NotFound => Markers(kube'[k].Finalizers) <= 1]_vars

\* The marker was added by one attempt, and a later attempt for the same
\* object ran to success: the list holds the marker once.
C21_Witness ==
  \E k \in TeamKeys :
    /\ result[k] = "ok" /\ Succeeded(k, "GetTeam", log)
    /\ created[k] = 1
    /\ kube[k] # NotFound /\ ~kube[k].DeletionTimestamp
    /\ kube[k].Finalizers = <<finalizerName>>

\* ---- C22
SecretOps == {"kube.Get:secret", "kube.Create:secret", "kube.Update:secret"}

\* C22: in an attempt of any kind whose create call succeeded, no rename and no
\* Secret call precedes the create; the call after the create is the store
\* update of the object: while it is outstanding the attempt stands at it (or
\* the process stopped); if it failed it is the last call and the attempt
\* returned an error, so no rename and no Secret call was issued; if it
\* succeeded the store holds the status the attempt set (slug, or id and
\* project), which is not empty, and only then do rename and Secret calls follow.
C22_StatusWrittenAfterCreate ==
  \A k \in Keys :
    \A i \in 1..Len(log[k]) :
      (log[k][i].op \in CreateOps /\ ~log[k][i].err)
      => /\ \A j \in 1..i : log[k][j].op \notin RenameOps \cup SecretOps
         /\ Len(log[k]) = i => pc[k] = "UpdateStatus" \/ result[k] = "stopped"
         /\ Len(log[k]) > i =>
              /\ log[k][i + 1].op = "kube.Update"
              /\ IF log[k][i + 1].err
                 THEN Len(log[k]) = i + 1 /\ pc[k] = "idle" /\ result[k] = "err"
                 ELSE /\ kube[k] # NotFound
                      /\ kube[k].Status = instance[k].Status
                      /\ StatusId(k, kube[k]) # EmptyString
                      /\ k \in ClientKeyKeys => kube[k].Status.Project = dep[k]
              /\ k \notin ClientKeyKeys => Len(log[k]) = i + 1

\* A ClientKey attempt created the key, stored id and project, and is now
\* past the fetch of the Secret.
C22_Witness ==
  \E k \in ClientKeyKeys :
    /\ Succeeded(k, "CreateClientKey", log)
    /\ Succeeded(k, "kube.Get:secret", log) \/ Last(log[k]).op = "kube.Create:secret"
    /\ kube[k] # NotFound /\ kube[k].Status.ID # EmptyString
    /\ kube[k].Status.Project = dep[k]

\* A ClientKey attempt created the key, the update of the status failed, and
\* the attempt returned an error without a rename or Secret call.
C22_WitnessFailed ==
  \E k \in ClientKeyKeys :
    /\ Succeeded(k, "CreateClientKey", log)
    /\ Last(log[k]) = Entry("kube.Update", NoResponse, TRUE)
    /\ result[k] = "err" /\ kube[k].Status.ID = EmptyString

\* ---- C23
\* C23: for every kind, when the attempt read an object under deletion that
\* does not carry the marker and GetOrganization succeeds, the attempt ends at
\* that call with success: its calls are the fetch and GetOrganization, no
\* upstream delete and no store write among them, and store, Secrets and
\* upstream entities are as before, whether the status is empty or not.
C23_UnmarkedDeletionNoOp ==
  [][\A k \in Keys :
       (/\ Acted(k) /\ pc[k] = "GetOrganization" /\ ~Last(log'[k]).err
        /\ instance[k].DeletionTimestamp /\ ~hasFinalizer(instance[k]))
       => /\ result'[k] = "ok" /\ pc'[k] = "idle"
          /\ Len(log'[k]) = 2
          /\ \A i \in 1..2 : log'[k][i].op \notin DeleteOps \cup StoreWriteOps
          /\ kube' = kube /\ secrets' = secrets /\ Sentry' = Sentry]_vars

\* A Team under deletion without the marker, its status naming a team that
\* exists upstream, was reconciled with success: team and object are as before.
C23_Witness ==
  \E k \in TeamKeys :
    /\ result[k] = "ok" /\ Len(log[k]) = 2
    /\ log[k][2] = Entry("GetOrganization", NoResponse, FALSE)
    /\ kube[k] # NotFound /\ kube[k].DeletionTimestamp /\ ~hasFinalizer(kube[k])
    /\ kube[k].Status.Slug # EmptyString
    /\ IndexBySlug(Teams, kube[k].Status.Slug) # 0

\* ---- C24
\* C24: no call of a Project attempt that read an object not under deletion
\* with a non-empty status.slug is an upstream create or delete; teams, keys
\* and organizations are never changed by it, and the projects either stay as
\* they are or, by UpdateProjectName, the project of status.slug gets the name
\* spec.name and nothing else changes.  This does not depend on the slug of the
\* Team that teamRef resolves to (dep).
C24_NoTeamReassignment ==
  [][\A k \in ProjectKeys :
       (/\ Acted(k) /\ pc[k] # "idle"
        /\ ~instance[k].DeletionTimestamp
        /\ instance[k].Status.Slug # EmptyString)
       => /\ Last(log'[k]).op \notin CreateOps \cup DeleteOps
          /\ Teams' = Teams /\ ClientKeys' = ClientKeys /\ Orgs' = Orgs
          /\ \/ Projects' = Projects
             \/ /\ Last(log'[k]).op = "UpdateProjectName"
                /\ LET i == IndexBySlug(Projects, instance[k].Status.Slug)
                   IN i # 0 /\ Projects' = [Projects EXCEPT ![i].Name = instance[k].Spec.Name]]_vars

\* The Team that teamRef names has lost the slug the project was recorded
\* under; the Project attempt read it, renamed its project and returned
\* success: one project, same slug, no team touched.
C24_Witness ==
  \E k \in ProjectKeys :
    /\ result[k] = "ok"
    /\ Succeeded(k, "kube.Get:teamRef", log)
    /\ Last(log[k]) = Entry("UpdateProjectName", NoResponse, FALSE)
    /\ dep[k] # kube[k].Status.Slug
    /\ Projects = <<[Name |-> instance[k].Spec.Name, Slug |-> kube[k].Status.Slug]>>
    /\ created[k] = 0

\* ---- C25
\* Team, Project and ClientKey are stored, none under deletion, none with an
\* upstream identifier in its status yet.
AllDeclared ==
  \A k \in Keys :
    kube[k] # NotFound /\ ~kube[k].DeletionTimestamp /\ StatusId(k, kube[k]) = EmptyString

\* Every object has its upstream identifier in the status and the Secret exists.
AllRecorded ==
  /\ \A k \in Keys : kube[k] # NotFound /\ StatusId(k, kube[k]) # EmptyString
  /\ \A k \in ClientKeyKeys : secrets[k] # NotFound

\* the stored object that k refers to has its upstream slug in the status
ReferenceResolved(k) ==
  LET ref == IF k \in ProjectKeys THEN kube[k].Spec.TeamRef ELSE kube[k].Spec.ProjectRef
  IN kube[k] # NotFound /\ kube[ref] # NotFound /\ kube[ref].Status.Slug # EmptyString

\* C25: with the three controllers running side by side, every queued request
\* being worked on (weak fairness per object) and finitely many failing calls,
\* a Team, a Project referring to it and a ClientKey referring to the Project
\* that are declared together lead to a state where Team and Project have a
\* status.slug, the ClientKey has a status.id and its Secret exists; and no
\* step adds an upstream project while the Team's status.slug is empty, nor an
\* upstream key while the Project's status.slug is empty.
C25_DependencyOrder ==
  /\ AllDeclared ~> AllRecorded
  /\ [][/\ \A k \in ProjectKeys : Len(Projects') > Len(Projects) => ReferenceResolved(k)
        /\ \A k \in ClientKeyKeys : Len(ClientKeys') > Len(ClientKeys) => ReferenceResolved(k)]_vars

\* The three objects were declared together and are all recorded now, each
\* created upstream once, the project after the team and the key after the project.
C25_Witness ==
  /\ AllRecorded
  /\ \A k \in Keys : created[k] = 1 /\ ~kube[k].DeletionTimestamp
  /\ Len(Teams) = 1 /\ Len(Projects) = 1 /\ Len(ClientKeys) = 1
  /\ \A k \in ClientKeyKeys : secrets[k].Owner = k

\* ---- C26
\* the object of k is gone, or stored without marker and with empty status
Released(k) ==
  kube[k] = NotFound \/ (~hasFinalizer(kube[k]) /\ StatusId(k, kube[k]) = EmptyString)

KeyRecorded(k) ==
  /\ kube[k] # NotFound /\ ~kube[k].DeletionTimestamp
  /\ kube[k].Status.ID # EmptyString
  /\ findKey(ClientKeys, kube[k].Status.ID) # Nil

\* the Secret of k exists and holds the DSN values of the upstream key of status.id
SecretCurrent(k) ==
  /\ secrets[k] # NotFound
  /\ secrets[k].Data = secretData(findKey(ClientKeys, kube[k].Status.ID))

\* C27: with every queued request being worked on (weak fairness per object),
\* a ClientKey that is not under deletion and whose key exists upstream, and
\* whose Secret is missing or holds other data than the key's DSN values,
\* leads to the Secret existing with exactly the key's DSN values.
C27_SecretRestored ==
  \A k \in ClientKeyKeys :
    (KeyRecorded(k) /\ ~SecretCurrent(k)) ~> (KeyRecorded(k) /\ SecretCurrent(k))

\* The Secret that ClientKey k owns was deleted or overwritten, and a later
\* attempt has put it back with the key's values.
C27_Witness ==
  \E k \in ClientKeyKeys :
    /\ edits > 0
    /\ KeyRecorded(k) /\ SecretCurrent(k)
    /\ secrets[k].Owner = k
    /\ pc[k] = "idle" /\ result[k] = "ok" /\ ~Queued(k)

\* ---- C28
\* how many calls named op the log l holds
Calls(l, op) == Cardinality({i \in 1..Len(l) : l[i].op = op})

\* C28: for every kind, (a) a store update made with a stale copy (the stored
\* object or Secret changed after the attempt read it) fails, stores nothing,
\* and is the last call of the attempt, which returns an error; (b) after any
\* failed store update the attempt issues no further call; the object is
\* updated at most twice in an attempt (marker, then status) and once under
\* deletion, the Secret at most once; (c) an attempt begins with one kube.Get
\* that hands it the object as stored.
C28_ConflictEndsAttempt ==
  [][\A k \in Keys :
       /\ (/\ Acted(k)
           /\ \/ pc[k] \in {"AddFinalizer", "UpdateStatus", "UpdateDeleted"} /\ stale[k]
              \/ pc[k] = "UpdateSecret" /\ staleSecret[k])
          => /\ Last(log'[k]).op \in {"kube.Update", "kube.Update:secret"}
             /\ Last(log'[k]).err
             /\ result'[k] = "err" /\ pc'[k] = "idle"
             /\ kube' = kube /\ secrets' = secrets /\ Sentry' = Sentry
       /\ (Acted(k) /\ pc[k] # "idle")
          => \A i \in 1..Len(log[k]) :
               log[k][i].op \in {"kube.Update", "kube.Update:secret"} => ~log[k][i].err
       /\ Acted(k)
          => /\ Calls(log'[k], "kube.Update")
                  <= (IF instance'[k] # NotFound /\ instance'[k].DeletionTimestamp THEN 1 ELSE 2)
             /\ Calls(log'[k], "kube.Update:secret") <= 1
             /\ Calls(log'[k], "kube.Get") = 1 /\ log'[k][1].op = "kube.Get"
       /\ (Acted(k) /\ pc[k] = "idle" /\ ~Last(log'[k]).err)
          => instance'[k] = kube[k] /\ ~stale'[k]]_vars

\* The object was changed after the attempt read it; the attempt's update
\* failed though no call was made to fail, and the attempt returned an error.
C28_Witness ==
  \E k \in Keys :
    /\ faults = 0 /\ edits > 0
    /\ log[k] # <<>> /\ Last(log[k]) = Entry("kube.Update", NoResponse, TRUE)
    /\ result[k] = "err" /\ pc[k] = "idle"
    /\ kube[k] # NotFound /\ kube[k] # instance[k]

\* ---- C29
\* C29: every attempt of any kind that has ended, other than by the process
\* being stopped, has returned success or an error.
C29_AttemptReturns ==
  \A k \in Keys :
    (pc[k] = "idle" /\ result[k] \notin {"none", "stopped"}) => result[k] \in {"ok", "err"}

\* A Project attempt under deletion ended at DeleteProject, which failed
\* without response by the deadline, and returned neither success nor an error.
C29_Witness ==
  \E k \in ProjectKeys :
    /\ pc[k] = "idle" /\ result[k] = "panic"
    /\ Last(log[k]) = Entry("DeleteProject", NoResponse, TRUE)
    /\ instance[k].DeletionTimestamp


\* ---- C30
\* C30: whatever CreateClientKey and DeleteClientKey calls were made on the
\* Fake, the ids of the keys it stores are pairwise distinct.
C30_IdsDistinct ==
  \A i, j \in 1..Len(ClientKeys) : i # j => ClientKeys[i].ID # ClientKeys[j].ID

\* the key just returned by CreateClientKey carries the id of an older stored key
C30_Witness ==
  \E k \in ClientKeyKeys :
    /\ log[k] # <<>> /\ Last(log[k]) = Entry("CreateClientKey", StatusOK, FALSE)
    /\ Len(ClientKeys) = 2
    /\ key[k] = ClientKeys[2]
    /\ ClientKeys[1].ID = ClientKeys[2].ID
    /\ created[k] = 3


\* ---- C31
\* the entity a call names is not stored: no team or project with that slug
\* for a call about a team or a project, no key with that id for a call about
\* a key, no project with that slug for the listing of a project's keys
NotStored(c) ==
  CASE c.op \in {"GetTeam", "UpdateTeam", "DeleteTeam"} -> IndexBySlug(Teams, c.slug) = 0
    [] c.op \in {"GetProject", "UpdateProject", "DeleteProject"} -> IndexBySlug(Projects, c.slug) = 0
    [] c.op \in {"UpdateClientKey", "DeleteClientKey"} -> IndexByID(ClientKeys, c.id) = 0
    [] c.op = "GetClientKeys" -> IndexBySlug(Projects, c.slug) = 0
    [] OTHER -> FALSE

\* C31: a get, update or delete on the Fake that names a team, project or key
\* that is not stored returns an error with a 404 response and leaves the four
\* stored sequences unchanged.
C31_NotStoredIs404 ==
  [][\A k \in Keys :
       (edits' = edits + 1 /\ log'[k] # <<>> /\ NotStored(log'[k][1]))
       => /\ log'[k][1].status = StatusNotFound
          /\ log'[k][1].err
          /\ Sentry' = Sentry]_vars

\* an update of key 2 in the stored project, after key 1 was deleted
C31_Witness ==
  /\ edits = 2
  /\ log["k1"] = <<[op |-> "UpdateClientKey", slug |-> Slugify(NameA), id |-> Itoa(2),
                    status |-> StatusNotFound, err |-> TRUE]>>
  /\ ClientKeys = <<>> /\ Len(Projects) = 1


\* ---- C32
\* the calls of do recorded in the state
DoCalls == {log[k][1] : k \in {j \in Keys : log[j] # <<>>}}

SuccessStatus == {StatusOK, StatusCreated, StatusNoContent}

\* for a response with any other status: an error that carries the response
\* and its body, returned with that response
ErrorCarriesResponse(c) ==
  (~c.failed /\ c.status \notin SuccessStatus)
  => /\ c.ret.err
     /\ c.ret.carried = [Response |-> c.status, Body |-> c.body]
     /\ c.ret.resp = c.status

\* C32 (as amended): do returns no error exactly when a response was received
\* with status 200, 201 or 204 and, when a value is to be decoded from it, its
\* body is a JSON value; for every other response status it returns an error
\* carrying the response and the body, alongside that response.
C32_NoErrorIffSuccessDecoded ==
  \A c \in DoCalls :
    /\ ~c.ret.err <=> (~c.failed /\ c.status \in SuccessStatus
                       /\ (c.decode => c.body = <<"{", "}">>))
    /\ ErrorCarriesResponse(c)

\* a 404 with a body: the error carries both
C32_Witness ==
  \E c \in DoCalls :
    /\ ~c.failed /\ c.status = StatusNotFound /\ c.body = <<"o", "o", "p", "s">>
    /\ c.ret.err /\ c.ret.carried.Body = c.body

\* C32 as stated: no error exactly when a response was received with status
\* 200, 201 or 204.
C32_AsStated ==
  \A c \in DoCalls :
    /\ ~c.ret.err <=> (~c.failed /\ c.status \in SuccessStatus)
    /\ ErrorCarriesResponse(c)


\* ---- C33
\* C33: removeFinalizer applied to a list without the marker leaves its
\* entries and their order as they were; applied a second time it leaves the
\* list as the first application left it; and after any application
\* hasFinalizer is false.
C33_RemovalIdempotent ==
  [][\A k \in TeamKeys :
       /\ (pc[k] = "idle" /\ pc'[k] = "removed" /\ ~hasFinalizer(instance[k]))
          => instance'[k].Finalizers = instance[k].Finalizers
       /\ (pc[k] = "removed" /\ pc'[k] = "removed again")
          => instance'[k].Finalizers = instance[k].Finalizers
       /\ pc'[k] # pc[k] => ~hasFinalizer(instance'[k])]_vars

\* removeFinalizer was applied twice, starting from a list with the marker
\* twice among two other finalizers
C33_Witness ==
  \E k \in TeamKeys :
    /\ pc[k] = "removed again"
    /\ kube[k].Finalizers = <<otherFinalizer, finalizerName, thirdFinalizer, finalizerName>>
    /\ instance[k].Finalizers = <<otherFinalizer, thirdFinalizer>>


\* ---- C34
\* the status of the object names an upstream entity that does not exist
NamesMissingEntity(k, obj) ==
  IF k \in TeamKeys THEN obj.Status.Slug # EmptyString /\ IndexBySlug(Teams, obj.Status.Slug) = 0
  ELSE IF k \in ProjectKeys
  THEN obj.Status.Slug # EmptyString /\ IndexBySlug(Projects, obj.Status.Slug) = 0
  ELSE obj.Status.ID # EmptyString /\ IndexByID(ClientKeys, obj.Status.ID) = 0

\* C34: in reconciler.go, an attempt for an object of any kind under deletion
\* that carries the marker and whose status names an upstream entity that no
\* longer exists returns no error and leaves the stored object without the
\* marker.
C34_MissingEntityDeletionCompletes ==
  [][\A k \in Keys :
       (/\ Len(log'[k]) = Len(log[k]) + 1
        /\ kube[k].DeletionTimestamp /\ hasFinalizer(kube[k])
        /\ NamesMissingEntity(k, kube[k]))
       => result'[k] = "ok" /\ ~hasFinalizer(kube'[k])]_vars

\* attempts for a Team and for a Project under deletion whose entities are gone
\* have ended, one with an error, one by a nil dereference, the markers in place
C34_Witness ==
  \E t \in TeamKeys, p \in ProjectKeys :
    /\ result[t] = "err" /\ result[p] = "panic"
    /\ \A k \in {t, p} : /\ kube[k].DeletionTimestamp /\ hasFinalizer(kube[k])
                         /\ NamesMissingEntity(k, kube[k])
                         /\ Len(log[k]) = 1


\* ---- C35
\* this step is a step of the attempt for k
AttemptStep(k) == pc'[k] # pc[k] \/ log'[k] # log[k]

CallsSucceeded(l) ==
  \A i \in 1..Len(l) : ~l[i].err \/ (l[i].op \in DeleteOps /\ l[i].status = StatusNotFound)

\* C36: an attempt for a Project or a ClientKey under deletion makes no Get of
\* the Team or Project its spec refers to, and when its calls succeed it ends
\* without error with the marker removed and the status cleared in the store,
\* whether or not the referenced object is in the store or exists upstream.
C36_DeletionIgnoresReference ==
  \A k \in ProjectKeys \cup ClientKeyKeys :
    (instance[k] # NotFound /\ instance[k].DeletionTimestamp)
    => /\ \A i \in 1..Len(log[k]) : log[k][i].op \notin {"kube.Get:teamRef", "kube.Get:projectRef"}
       /\ (pc[k] = "idle" /\ result[k] # "stopped" /\ CallsSucceeded(log[k]))
          => /\ result[k] = "ok"
             /\ kube[k] # NotFound /\ ~hasFinalizer(kube[k])
             /\ StatusId(k, kube[k]) = EmptyString

\* the ClientKey was released while its Project is neither in the store nor
\* upstream
C36_Witness ==
  \E k \in ClientKeyKeys :
    /\ pc[k] = "idle" /\ result[k] = "ok" /\ kube[k] # NotFound
    /\ kube[kube[k].Spec.ProjectRef] = NotFound /\ Projects = <<>>
    /\ \E i \in 1..Len(log[k]) : log[k][i] = Entry("DeleteClientKey", StatusOK, FALSE)
    /\ ~hasFinalizer(kube[k]) /\ kube[k].Status = ClientKeyStatusEmpty


\* ---- C37
\* C37: no two Team objects in the store hold the same non-empty slug in
\* their status.
C37_IdentifiersDistinct ==
  \A j, k \in {"t1", "t2"} :
    (j # k /\ kube[j] # NotFound /\ kube[k] # NotFound
     /\ kube[j].Status.Slug = kube[k].Status.Slug)
    => kube[k].Status.Slug = EmptyString

\* t1 was deleted and released, and with it went the team that t2, which is
\* not under deletion, still records
C37_Witness ==
  /\ kube["t1"] # NotFound /\ kube["t2"] # NotFound
  /\ kube["t1"].DeletionTimestamp /\ ~hasFinalizer(kube["t1"]) /\ result["t1"] = "ok"
  /\ ~kube["t2"].DeletionTimestamp /\ kube["t2"].Status.Slug # EmptyString
  /\ result["t2"] = "ok" /\ edits = 1
  /\ IndexBySlug(Teams, kube["t2"].Status.Slug) = 0

====
